---------------------------- MODULE Spec2Model ----------------------------
(***************************************************************************)
(* Verification model of the glin-docs repository: the site configuration  *)
(* (docusaurus.config.ts, sidebars.ts), the documents under docs/, and the *)
(* programs the documents give (Sign in with GLIN).                        *)
(*                                                                         *)
(* Paths, document ids and routes are sequences of path segments:         *)
(* 'sdk/contracts/calling' and '/sdk/contracts/calling' are both          *)
(* <<"sdk", "contracts", "calling">>; '/' alone is <<>>.                   *)
(***************************************************************************)
EXTENDS Integers, Sequences, FiniteSets, TLC

(***************************************************************************)
(* Site configuration (docusaurus.config.ts)                               *)
(***************************************************************************)

(* baseUrl: '/' *)
baseUrl ==
  <<>>

(* A docs route base of 'docs', which is what the plugin uses when the     *)
(* routeBasePath line is absent.                                           *)
routeBasePath_docs ==
  <<"docs">>

(* presets.classic.docs.routeBasePath: '/' *)
routeBasePath ==
  <<>>

(* Reporting every broken link as a warning only. *)
onBrokenLinks_warn ==
  "warn"

(* onBrokenLinks: 'throw' *)
onBrokenLinks ==
  "throw"

(* onBrokenMarkdownLinks: 'warn' *)
onBrokenMarkdownLinks ==
  "warn"

(* themeConfig.navbar.items *)
navbarItems ==
  << [type |-> "docSidebar", sidebarId |-> "networkSidebar", position |-> "left",
      label |-> "Network"],
     [type |-> "docSidebar", sidebarId |-> "sdkSidebar", position |-> "left",
      label |-> "SDK"],
     [type |-> "docSidebar", sidebarId |-> "federatedLearningSidebar", position |-> "left",
      label |-> "Federated Learning"],
     [type |-> "docSidebar", sidebarId |-> "toolsSidebar", position |-> "left",
      label |-> "Tools"],
     [type |-> "docSidebar", sidebarId |-> "blockchainSidebar", position |-> "left",
      label |-> "Blockchain"],
     [type |-> "link", href |-> "https://glin.ai", position |-> "right", label |-> "Website"],
     [type |-> "link", href |-> "https://github.com/glin-ai", position |-> "right",
      label |-> "GitHub"] >>

(* themeConfig.footer.links: the items that carry a site-internal `to`     *)
(* target, as <<line, target>>; every other footer item is an external     *)
(* href.                                                                   *)
footerLinks ==
  << <<110, <<"sdk", "intro">> >>,
     <<114, <<"sdk", "typescript", "setup">> >>,
     <<118, <<"sdk", "rust", "setup">> >> >>

(* themeConfig.prism.additionalLanguages *)
additionalLanguages ==
  {"rust", "toml", "bash", "json"}

(* The languages the highlighter bundles by default (prism-react-renderer), *)
(* with the names and aliases they answer to.                              *)
PrismDefaultLanguages ==
  {"markup", "html", "xml", "svg", "mathml", "css", "clike", "javascript", "js", "jsx",
   "typescript", "ts", "tsx", "swift", "kotlin", "objectivec", "reason", "rust", "graphql",
   "yaml", "yml", "go", "c", "cpp", "markdown", "md", "python", "py", "json"}

(***************************************************************************)
(* Sidebars (sidebars.ts)                                                  *)
(***************************************************************************)

Doc(id, label) ==
  [type |-> "doc", id |-> id, label |-> label]

Category(label, items) ==
  [type |-> "category", label |-> label, items |-> items]

sidebars ==
  [ sdkSidebar |->
      << Doc(<<"sdk", "intro">>, "Overview"),
         Category("Getting Started",
           << <<"sdk", "getting-started", "overview">>,
              <<"sdk", "getting-started", "installation">>,
              <<"sdk", "getting-started", "quickstart">> >>),
         Category("Core Concepts",
           << <<"sdk", "core-concepts", "architecture">>,
              <<"sdk", "core-concepts", "authentication">>,
              <<"sdk", "core-concepts", "accounts">>,
              <<"sdk", "core-concepts", "transactions">>,
              <<"sdk", "core-concepts", "events">> >>),
         Category("Contract Interaction",
           << <<"sdk", "contracts", "deploying">>,
              <<"sdk", "contracts", "calling-methods">>,
              <<"sdk", "contracts", "querying-state">>,
              <<"sdk", "contracts", "metadata">> >>),
         Category("TypeScript SDK",
           << <<"sdk", "typescript", "setup">>,
              <<"sdk", "typescript", "browser-extensions">>,
              <<"sdk", "typescript", "react-integration">>,
              <<"sdk", "typescript", "api-reference">>,
              <<"sdk", "typescript", "examples">> >>),
         Category("Rust SDK",
           << <<"sdk", "rust", "setup">>,
              <<"sdk", "rust", "cli-tools">>,
              <<"sdk", "rust", "async-patterns">>,
              <<"sdk", "rust", "api-reference">>,
              <<"sdk", "rust", "examples">> >>),
         Category("Examples",
           << <<"sdk", "examples", "sign-in-with-glin">>,
              <<"sdk", "examples", "deploy-contract">>,
              <<"sdk", "examples", "build-indexer">>,
              <<"sdk", "examples", "create-cli-tool">> >>) >>,
    blockchainSidebar |->
      << Doc(<<"blockchain", "intro">>, "Overview"),
         Category("Running a Node",
           << <<"blockchain", "node", "installation">>,
              <<"blockchain", "node", "configuration">>,
              <<"blockchain", "node", "development">> >>),
         Category("Validators",
           << <<"blockchain", "validators", "setup">>,
              <<"blockchain", "validators", "keys">>,
              <<"blockchain", "validators", "staking">> >>),
         Category("Architecture",
           << <<"blockchain", "architecture", "overview">>,
              <<"blockchain", "architecture", "pallets">>,
              <<"blockchain", "architecture", "runtime">> >>) >> ]

(***************************************************************************)
(* Documents (docs/)                                                       *)
(***************************************************************************)

(* A document file docs/<path>.<ext>. *)
DocFile(path, ext) ==
  [path |-> path, ext |-> ext]

(* The document files held under docs/ by name. *)
SrcDocFiles ==
  << DocFile(<<"sdk", "intro">>, "md"),
     DocFile(<<"sdk", "getting-started", "overview">>, "md"),
     DocFile(<<"sdk", "contracts", "deploying">>, "md"),
     DocFile(<<"sdk", "contracts", "calling">>, "md"),
     DocFile(<<"sdk", "typescript", "setup">>, "md"),
     DocFile(<<"sdk", "examples", "deploy-contract">>, "md") >>

(* The documents of docs/ beyond those above.  Their file names are not    *)
(* recorded, so every document that the sidebars or a link written against *)
(* the configured routing names is taken to exist, except                  *)
(* sdk/contracts/calling-methods, whose document is the file               *)
(* docs/sdk/contracts/calling.md above.                                    *)
OtherDocPaths ==
  <<
    <<"blockchain", "architecture", "overview">>, <<"blockchain", "architecture", "pallets">>,
    <<"blockchain", "architecture", "runtime">>, <<"blockchain", "intro">>,
    <<"blockchain", "node", "configuration">>, <<"blockchain", "node", "development">>,
    <<"blockchain", "node", "installation">>, <<"blockchain", "validators", "keys">>,
    <<"blockchain", "validators", "setup">>, <<"blockchain", "validators", "staking">>,
    <<"federated-learning", "concepts", "aggregation">>,
    <<"federated-learning", "concepts", "gradients">>,
    <<"federated-learning", "concepts", "rewards">>, <<"federated-learning", "concepts", "tasks">>,
    <<"federated-learning", "examples", "federated-analytics">>,
    <<"federated-learning", "examples", "image-classification">>,
    <<"federated-learning", "examples", "nlp-training">>,
    <<"federated-learning", "getting-started", "create-task">>,
    <<"federated-learning", "getting-started", "deploy-model">>,
    <<"federated-learning", "getting-started", "train-model">>, <<"federated-learning", "intro">>,
    <<"network", "getting-started">>, <<"network", "intro">>, <<"network", "tokenomics">>,
    <<"network", "validators">>, <<"sdk", "contracts", "events">>,
    <<"sdk", "contracts", "metadata">>, <<"sdk", "contracts", "querying">>,
    <<"sdk", "contracts", "querying-state">>, <<"sdk", "core-concepts", "accounts">>,
    <<"sdk", "core-concepts", "architecture">>, <<"sdk", "core-concepts", "authentication">>,
    <<"sdk", "core-concepts", "events">>, <<"sdk", "core-concepts", "transactions">>,
    <<"sdk", "examples", "build-indexer">>, <<"sdk", "examples", "create-cli-tool">>,
    <<"sdk", "examples", "sign-in-with-glin">>, <<"sdk", "getting-started", "installation">>,
    <<"sdk", "getting-started", "quickstart">>, <<"sdk", "rust", "api-reference">>,
    <<"sdk", "rust", "async-patterns">>, <<"sdk", "rust", "cli-tools">>,
    <<"sdk", "rust", "examples">>, <<"sdk", "rust", "setup">>,
    <<"sdk", "typescript", "api-reference">>, <<"sdk", "typescript", "browser-extensions">>,
    <<"sdk", "typescript", "examples">>, <<"sdk", "typescript", "react-integration">>,
    <<"tools", "intro">>
  >>

OtherDocFiles ==
  [i \in 1..Len(OtherDocPaths) |-> DocFile(OtherDocPaths[i], "md")]

DocFiles ==
  SrcDocFiles \o OtherDocFiles

(* The id of a document: its path relative to docs/ without the extension. *)
DocId(f) ==
  f.path

(* Joins URL parts into one path. *)
NormalizeUrl(parts) ==
  parts[1] \o parts[2] \o parts[3]

(* The route a document is served at. *)
DocRoute(f) ==
  NormalizeUrl(<<baseUrl, routeBasePath, DocId(f)>>)

(***************************************************************************)
(* Content of the documents: internal links and code fences                *)
(***************************************************************************)

(* Internal links of docs/sdk/intro.md: <<line, target route as path segments>>. *)
intro_links ==
  <<
     <<22, <<"sdk", "typescript", "setup">> >>, <<36, <<"sdk", "rust", "setup">> >>,
     <<60, <<"sdk", "getting-started", "installation">> >>,
     <<61, <<"sdk", "getting-started", "quickstart">> >>,
     <<62, <<"sdk", "examples", "sign-in-with-glin">> >>,
     <<68, <<"sdk", "core-concepts", "authentication">> >>,
     <<69, <<"sdk", "typescript", "react-integration">> >>,
     <<70, <<"sdk", "examples", "deploy-contract">> >>, <<73, <<"sdk", "typescript", "setup">> >>,
     <<73, <<"sdk", "rust", "setup">> >>, <<74, <<"sdk", "core-concepts", "accounts">> >>,
     <<75, <<"sdk", "examples", "build-indexer">> >>, <<76, <<"sdk", "contracts", "deploying">> >>,
     <<79, <<"sdk", "rust", "setup">> >>, <<80, <<"sdk", "rust", "async-patterns">> >>,
     <<81, <<"sdk", "examples", "create-cli-tool">> >>
  >>

(* Code fence openings of docs/sdk/intro.md: <<line, language tag ("" when absent)>>. *)
intro_fences ==
  <<
     <<87, "">>
  >>

(* Internal links of docs/sdk/getting-started/overview.md: <<line,
    target route as path segments>>. *)
overview_links ==
  <<
     <<35, <<"sdk", "typescript", "setup">> >>, <<49, <<"sdk", "rust", "setup">> >>,
     <<53, <<"sdk", "getting-started", "installation">> >>,
     <<54, <<"sdk", "getting-started", "quickstart">> >>,
     <<55, <<"sdk", "core-concepts", "architecture">> >>
  >>

(* Code fence openings of docs/sdk/getting-started/overview.md: <<line,
    language tag ("" when absent)>>. *)
overview_fences ==
  <<
     <<31, "bash">>, <<45, "bash">>, <<73, "typescript">>, <<82, "rust">>
  >>

(* Internal links of docs/sdk/contracts/deploying.md: <<line, target route as path segments>>. *)
deploying_links ==
  <<
     <<12, <<"sdk", "typescript", "setup">> >>, <<12, <<"sdk", "rust", "setup">> >>,
     <<843, <<"sdk", "contracts", "calling">> >>, <<844, <<"sdk", "contracts", "querying">> >>,
     <<845, <<"sdk", "contracts", "events">> >>, <<1636, <<"sdk", "contracts", "deploying">> >>,
     <<1637, <<"sdk", "contracts", "calling">> >>, <<1638, <<"sdk", "examples", "build-indexer">> >>
  >>

(* Code fence openings of docs/sdk/contracts/deploying.md: <<line,
    language tag ("" when absent)>>. *)
deploying_fences ==
  <<
     <<36, "bash">>, <<54, "typescript">>, <<133, "bash">>, <<140, "rust">>, <<190, "bash">>,
     <<198, "">>, <<214, "typescript">>, <<258, "rust">>, <<312, "typescript">>, <<369, "rust">>,
     <<427, "typescript">>, <<464, "rust">>, <<510, "typescript">>, <<531, "rust">>,
     <<569, "typescript">>, <<608, "rust">>, <<674, "typescript">>, <<818, "typescript">>,
     <<878, "rust">>, <<906, "typescript">>, <<954, "rust">>, <<1011, "typescript">>,
     <<1048, "rust">>, <<1104, "typescript">>, <<1137, "rust">>, <<1179, "typescript">>,
     <<1222, "rust">>, <<1279, "typescript">>, <<1329, "rust">>, <<1385, "typescript">>,
     <<1461, "rust">>, <<1554, "typescript">>, <<1582, "typescript">>, <<1606, "typescript">>
  >>

(* Internal links of docs/sdk/contracts/calling.md: <<line, target route as path segments>>. *)
calling_links ==
  <<
     <<12, <<"docs", "sdk", "contracts", "querying">> >>,
     <<19, <<"docs", "sdk", "contracts", "deploying">> >>,
     <<752, <<"docs", "sdk", "contracts", "querying">> >>,
     <<753, <<"docs", "sdk", "contracts", "events">> >>,
     <<754, <<"docs", "sdk", "examples", "deploy-contract">> >>
  >>

(* Code fence openings of docs/sdk/contracts/calling.md: <<line, language tag ("" when absent)>>. *)
calling_fences ==
  <<
     <<30, "typescript">>, <<78, "rust">>, <<126, "typescript">>, <<174, "rust">>,
     <<223, "typescript">>, <<237, "rust">>, <<263, "typescript">>, <<293, "rust">>,
     <<339, "typescript">>, <<393, "rust">>, <<438, "typescript">>, <<468, "rust">>,
     <<517, "typescript">>, <<536, "rust">>, <<572, "typescript">>, <<595, "rust">>,
     <<620, "typescript">>, <<642, "rust">>, <<677, "typescript">>, <<688, "typescript">>,
     <<702, "typescript">>, <<716, "typescript">>
  >>

(* Internal links of docs/sdk/typescript/setup.md: <<line, target route as path segments>>. *)
setup_links ==
  <<
     <<333, <<"docs", "sdk", "typescript", "browser-extensions">> >>,
     <<465, <<"docs", "sdk", "typescript", "browser-extensions">> >>,
     <<466, <<"docs", "sdk", "typescript", "react-integration">> >>,
     <<467, <<"docs", "sdk", "typescript", "api-reference">> >>,
     <<468, <<"docs", "sdk", "typescript", "examples">> >>,
     <<472, <<"docs", "sdk", "typescript", "examples">> >>
  >>

(* Code fence openings of docs/sdk/typescript/setup.md: <<line, language tag ("" when absent)>>. *)
setup_fences ==
  <<
     <<15, "bash">>, <<30, "bash">>, <<38, "typescript">>, <<52, "typescript">>, <<76, "bash">>,
     <<84, "typescript">>, <<98, "bash">>, <<106, "vue">>, <<128, "bash">>, <<136, "typescript">>,
     <<154, "bash">>, <<164, "json">>, <<188, "typescript">>, <<201, "typescript">>,
     <<216, "typescript">>, <<236, "typescript">>, <<245, "typescript">>, <<263, "bash">>,
     <<276, "typescript">>, <<284, "typescript">>, <<308, "bash">>, <<314, "typescript">>,
     <<341, "typescript">>, <<353, "typescript">>, <<364, "typescript">>, <<393, "json">>,
     <<413, "bash">>, <<417, "typescript">>, <<443, "bash">>, <<458, "bash">>
  >>

(* Internal links of docs/sdk/examples/deploy-contract.md: <<line,
    target route as path segments>>. *)
deployContract_links ==
  <<
     <<688, <<"docs", "sdk", "contracts", "calling">> >>,
     <<689, <<"docs", "sdk", "contracts", "querying">> >>,
     <<690, <<"docs", "sdk", "contracts", "events">> >>
  >>

(* Code fence openings of docs/sdk/examples/deploy-contract.md: <<line,
    language tag ("" when absent)>>. *)
deployContract_fences ==
  <<
     <<25, "bash">>, <<31, "bash">>, <<47, "bash">>, <<59, "rust">>, <<302, "toml">>,
     <<326, "bash">>, <<341, "">>, <<380, "bash">>, <<392, "bash">>, <<402, "typescript">>,
     <<559, "json">>, <<587, "bash">>, <<607, "rust">>, <<650, "bash">>, <<655, "bash">>
  >>

(* Internal links of unnamed/part_002: <<line, target route as path segments>>. *)
part002_links ==
  <<
     <<38, <<"network", "getting-started">> >>, <<39, <<"network", "validators">> >>,
     <<40, <<"network", "tokenomics">> >>, <<41, <<"sdk", "intro">> >>,
     <<42, <<"federated-learning", "intro">> >>, <<58, <<"network", "getting-started">> >>,
     <<743, <<"docs", "sdk", "rust", "cli-tools">> >>,
     <<744, <<"docs", "sdk", "rust", "async-patterns">> >>,
     <<745, <<"docs", "sdk", "rust", "api-reference">> >>,
     <<746, <<"docs", "sdk", "rust", "examples">> >>
  >>

(* Code fence openings of unnamed/part_002: <<line, language tag ("" when absent)>>. *)
part002_fences ==
  <<
     <<76, "bash">>, <<81, "bash">>, <<88, "bash">>, <<97, "toml">>, <<123, "bash">>,
     <<135, "toml">>, <<144, "rust">>, <<188, "toml">>, <<197, "rust">>, <<257, "toml">>,
     <<265, "rust">>, <<309, "rust">>, <<330, "rust">>, <<356, "rust">>, <<375, "rust">>,
     <<416, "bash">>, <<429, "toml">>, <<434, "rust">>, <<452, "rust">>, <<474, "rust">>,
     <<494, "toml">>, <<499, "rust">>, <<508, "rust">>, <<517, "toml">>, <<522, "rust">>,
     <<533, "rust">>, <<557, "rust">>, <<580, "toml">>, <<586, "rust">>, <<605, "rust">>,
     <<630, "bash">>, <<636, "toml">>, <<645, "rust">>, <<667, "bash">>, <<676, "bash">>,
     <<690, "bash">>, <<701, "rust">>, <<716, "bash">>, <<726, "dockerfile">>
  >>

(* Internal links of unnamed/part_003: <<line, target route as path segments>>. *)
part003_links ==
  <<
     <<1128, <<"sdk", "examples", "sign-in-with-glin">> >>,
     <<1129, <<"sdk", "examples", "deploy-contract">> >>,
     <<1130, <<"sdk", "core-concepts", "transactions">> >>
  >>

(* Code fence openings of unnamed/part_003: <<line, language tag ("" when absent)>>. *)
part003_fences ==
  <<
     <<24, "">>, <<34, "bash">>, <<45, "bash">>, <<56, "prisma">>, <<126, "sql">>,
     <<180, "typescript">>, <<215, "typescript">>, <<294, "typescript">>, <<386, "typescript">>,
     <<425, "typescript">>, <<507, "rust">>, <<551, "rust">>, <<688, "rust">>, <<764, "rust">>,
     <<849, "rust">>, <<886, "bash">>, <<903, "bash">>, <<919, "bash">>, <<924, "json">>,
     <<938, "bash">>, <<944, "bash">>, <<950, "bash">>, <<955, "json">>, <<967, "typescript">>,
     <<977, "sql">>, <<989, "typescript">>, <<1009, "typescript">>, <<1026, "typescript">>,
     <<1047, "typescript">>, <<1070, "typescript">>
  >>

(* Internal links of unnamed/part_004: <<line, target route as path segments>>. *)
part004_links ==
  <<
     <<543, <<"docs", "sdk", "core-concepts", "authentication">> >>,
     <<544, <<"docs", "sdk", "core-concepts", "accounts">> >>,
     <<545, <<"docs", "sdk", "core-concepts", "transactions">> >>
  >>

(* Code fence openings of unnamed/part_004: <<line, language tag ("" when absent)>>. *)
part004_fences ==
  <<
     <<22, "bash">>, <<35, "typescript">>, <<143, "typescript">>, <<211, "typescript">>,
     <<280, "typescript">>, <<357, "typescript">>, <<385, "typescript">>, <<411, "prisma">>,
     <<434, "typescript">>, <<479, "bash">>, <<504, "typescript">>, <<530, "bash">>
  >>

(* Internal links of unnamed/part_005: <<line, target route as path segments>>. *)
part005_links ==
  <<
     <<1312, <<"docs", "sdk", "examples", "sign-in-with-glin">> >>,
     <<1313, <<"docs", "sdk", "examples", "deploy-contract">> >>,
     <<1314, <<"docs", "sdk", "examples", "build-indexer">> >>
  >>

(* Code fence openings of unnamed/part_005: <<line, language tag ("" when absent)>>. *)
part005_fences ==
  <<
     <<26, "bash">>, <<37, "bash">>, <<49, "typescript">>, <<131, "typescript">>,
     <<295, "typescript">>, <<331, "typescript">>, <<444, "typescript">>, <<496, "typescript">>,
     <<551, "typescript">>, <<558, "json">>, <<582, "rust">>, <<727, "rust">>, <<854, "rust">>,
     <<880, "rust">>, <<974, "rust">>, <<1081, "rust">>, <<1119, "rust">>, <<1130, "bash">>,
     <<1146, "bash">>, <<1161, "bash">>, <<1177, "bash">>, <<1189, "bash">>, <<1206, "bash">>,
     <<1225, "typescript">>, <<1279, "typescript">>
  >>

(* Internal links of unnamed/part_006: <<line, target route as path segments>>. *)
part006_links ==
  <<
     <<739, <<"sdk", "contracts", "calling">> >>, <<740, <<"sdk", "contracts", "events">> >>,
     <<741, <<"sdk", "examples", "deploy-contract">> >>
  >>

(* Code fence openings of unnamed/part_006: <<line, language tag ("" when absent)>>. *)
part006_fences ==
  <<
     <<29, "typescript">>, <<66, "rust">>, <<106, "typescript">>, <<132, "rust">>,
     <<167, "typescript">>, <<199, "rust">>, <<239, "typescript">>, <<267, "rust">>,
     <<308, "typescript">>, <<361, "rust">>, <<432, "typescript">>, <<453, "rust">>,
     <<490, "typescript">>, <<524, "rust">>, <<564, "typescript">>, <<580, "rust">>,
     <<605, "typescript">>, <<634, "rust">>, <<655, "typescript">>, <<666, "typescript">>,
     <<680, "typescript">>, <<696, "typescript">>
  >>

(* Internal links of unnamed/part_007: <<line, target route as path segments>>. *)
part007_links ==
  <<
     <<79, <<"federated-learning", "concepts", "tasks">> >>,
     <<80, <<"federated-learning", "concepts", "gradients">> >>,
     <<81, <<"federated-learning", "concepts", "aggregation">> >>,
     <<82, <<"federated-learning", "concepts", "rewards">> >>,
     <<86, <<"federated-learning", "getting-started", "create-task">> >>,
     <<87, <<"federated-learning", "getting-started", "train-model">> >>,
     <<88, <<"federated-learning", "getting-started", "deploy-model">> >>,
     <<92, <<"federated-learning", "examples", "image-classification">> >>,
     <<93, <<"federated-learning", "examples", "nlp-training">> >>,
     <<94, <<"federated-learning", "examples", "federated-analytics">> >>,
     <<98, <<"federated-learning", "getting-started", "create-task">> >>,
     <<147, <<"sdk", "typescript", "setup">> >>, <<152, <<"sdk", "rust", "setup">> >>
  >>

(* Code fence openings of unnamed/part_007: <<line, language tag ("" when absent)>>. *)
part007_fences ==
  <<
     <<21, "">>, <<47, "bash">>, <<53, "typescript">>, <<127, "bash">>
  >>

(* The pages whose content is held: the six named documents and the      *)
(* documents held without a name.                                          *)
Pages ==
  << [file |-> "docs/sdk/intro.md", links |-> intro_links, fences |-> intro_fences],
     [file |-> "docs/sdk/getting-started/overview.md", links |-> overview_links,
      fences |-> overview_fences],
     [file |-> "docs/sdk/contracts/deploying.md", links |-> deploying_links,
      fences |-> deploying_fences],
     [file |-> "docs/sdk/contracts/calling.md", links |-> calling_links,
      fences |-> calling_fences],
     [file |-> "docs/sdk/typescript/setup.md", links |-> setup_links, fences |-> setup_fences],
     [file |-> "docs/sdk/examples/deploy-contract.md", links |-> deployContract_links,
      fences |-> deployContract_fences],
     [file |-> "part_002", links |-> part002_links, fences |-> part002_fences],
     [file |-> "part_003", links |-> part003_links, fences |-> part003_fences],
     [file |-> "part_004", links |-> part004_links, fences |-> part004_fences],
     [file |-> "part_005", links |-> part005_links, fences |-> part005_fences],
     [file |-> "part_006", links |-> part006_links, fences |-> part006_fences],
     [file |-> "part_007", links |-> part007_links, fences |-> part007_fences] >>

(***************************************************************************)
(* What the site's validation walks over                                   *)
(***************************************************************************)

RECURSIVE ItemDocIds(_, _)
(* The document ids of sidebar items i.. of a sidebar, in order: a doc     *)
(* item's id, every string of a category's items.                          *)
ItemDocIds(items, i) ==
  IF i > Len(items) THEN <<>>
  ELSE (IF items[i].type = "doc" THEN <<items[i].id>> ELSE items[i].items)
       \o ItemDocIds(items, i + 1)

(* Every document id the sidebars configuration lists, with its sidebar. *)
SidebarRefs ==
  [i \in 1..Len(ItemDocIds(sidebars.sdkSidebar, 1)) |->
     [sidebar |-> "sdkSidebar", id |-> ItemDocIds(sidebars.sdkSidebar, 1)[i]]]
  \o [i \in 1..Len(ItemDocIds(sidebars.blockchainSidebar, 1)) |->
     [sidebar |-> "blockchainSidebar", id |-> ItemDocIds(sidebars.blockchainSidebar, 1)[i]]]

(* The sidebars the navbar's docSidebar items name. *)
NavbarSidebarIds ==
  SelectSeq(navbarItems, LAMBDA it : it.type = "docSidebar")

RECURSIVE PageLinks(_)
(* The internal links of pages i.., then the footer's. *)
PageLinks(i) ==
  IF i > Len(Pages)
  THEN [k \in 1..Len(footerLinks) |->
          [file |-> "docusaurus.config.ts", line |-> footerLinks[k][1],
           target |-> footerLinks[k][2]]]
  ELSE [k \in 1..Len(Pages[i].links) |->
          [file |-> Pages[i].file, line |-> Pages[i].links[k][1],
           target |-> Pages[i].links[k][2]]]
       \o PageLinks(i + 1)

SiteLinks ==
  PageLinks(1)

RECURSIVE PageFences(_)
(* The code fence openings of pages i... *)
PageFences(i) ==
  IF i > Len(Pages) THEN <<>>
  ELSE [k \in 1..Len(Pages[i].fences) |->
          [file |-> Pages[i].file, line |-> Pages[i].fences[k][1],
           tag |-> Pages[i].fences[k][2]]]
       \o PageFences(i + 1)

SiteFences ==
  PageFences(1)

(* The language tags the configured highlighter recognises. *)
RecognisedLanguages ==
  PrismDefaultLanguages \cup additionalLanguages

(***************************************************************************)
(* State                                                                   *)
(***************************************************************************)

(* Site validation: documents are loaded into ids and routes, then every   *)
(* sidebar entry, navbar sidebar, internal link and code fence is checked  *)
(* and every finding recorded.                                             *)
VARIABLES
  sitePhase,        \* "docs", "sidebars", "navbar", "links", "fences", "done"
  cursor,           \* items of the current phase already handled
  docIds,           \* ids of the documents loaded
  routes,           \* routes created for the documents loaded
  served,           \* <<document file, route>> of the documents loaded
  missingDocs,      \* sidebar entries whose id names no document
  missingSidebars,  \* navbar sidebar ids that are no sidebar
  brokenLinks,      \* internal links whose target is no route
  badFences         \* code fences without a recognised language tag

siteVars ==
  <<sitePhase, cursor, docIds, routes, served, missingDocs, missingSidebars, brokenLinks,
    badFences>>

(* A build of the site over some content. *)
VARIABLES
  buildPhase,       \* "load", "markdown", "links", "done", "failed"
  contentFiles,     \* the document files of the content
  contentLinks,     \* the internal link targets the content uses
  contentMdRefs,    \* the markdown files the content refers to by file path
  buildRoutes,      \* routes created by the build
  buildWarnings,    \* warnings the build has reported
  siteProduced      \* whether the build has completed with a site

buildVars ==
  <<buildPhase, contentFiles, contentLinks, contentMdRefs, buildRoutes, buildWarnings,
    siteProduced>>

(* Sign in with GLIN: the backend routes, the session store and the       *)
(* useGlinAuth hook of one browser.                                        *)
VARIABLES
  now,              \* the clock, in milliseconds
  sessionSeq,       \* session ids generated so far
  issued,           \* the sessions returned by POST /api/auth/signin
  signInRequest,    \* the last request handled by POST /api/auth/signin
  signInResponse,   \* and its response
  profileRequest,   \* the x-session-id header of the last GET /api/user/profile
  profileResponse,  \* and its response
  sessionTable,     \* rows of prisma.session (lib/session.ts)
  clientPc,         \* where the hook is: "unmounted", "idle", "sign", "fetch", "save"
  user,             \* useState<User | null>
  loading,          \* useState(true)
  localStorage,     \* glin_session and glin_address
  authMessage,      \* the message signIn created
  authSignature,    \* the signature the wallet returned
  fetchResponse,    \* the response signIn got from the backend
  signedOut         \* the session ids held when signOut was called

serverVars ==
  <<now, sessionSeq, issued, signInRequest, signInResponse, profileRequest, profileResponse,
    sessionTable>>

clientVars ==
  <<clientPc, user, loading, localStorage, authMessage, authSignature, fetchResponse,
    signedOut>>

authVars ==
  <<serverVars, clientVars>>

(* Blockchain indexer: the chain it follows, its database, and the running *)
(* Indexer with the new-head callbacks it has in flight.                   *)
VARIABLES
  chainHead,       \* number of the best block of the canonical chain
  forks,           \* fork point (block number) of every reorganization so far
  db,              \* committed rows of the Block, Event and Transfer tables
  syncStates,      \* rows of the SyncState table, in id order
  blockIdSeq,      \* last value of Block.id's autoincrement
  isRunning,       \* Indexer.isRunning
  startBlock,      \* const startBlock of Indexer.start
  subscribed,      \* whether the subscribeNewHeads subscription is live
  lastHeader,      \* hash of the last header the subscription delivered
  handlers,        \* the subscription callbacks in flight
  insertFailures,  \* inserts the database has refused for other reasons
  starts           \* runs of main() so far

indexerVars ==
  <<chainHead, forks, db, syncStates, blockIdSeq, isRunning, startBlock, subscribed,
    lastHeader, handlers, insertFailures, starts>>

(* processWithRetry: one call, its loop counter and the sleeps it has made. *)
VARIABLES
  retryPc,         \* "idle", "attempt", "sleep", "returned" or "thrown"
  retryBlock,      \* the blockNumber argument
  maxRetries,      \* the maxRetries argument
  retryI,          \* the loop variable i
  retryDelays      \* the delays slept so far, in milliseconds

retryVars ==
  <<retryPc, retryBlock, maxRetries, retryI, retryDelays>>

(* GLIN CLI: the stored accounts, the outcome of the last save, and one    *)
(* transfer command with the transaction it submits.                       *)
VARIABLES
  accounts,        \* the accounts list of the CLI's storage
  cliError,        \* message of the error the last account command ended with
  lastSaved,       \* the account the last account command was given
  transferImpl,    \* which CLI runs the transfer: "ts" or "rust"
  transferPc,      \* position of the transfer command
  txStatus,        \* status of the submitted extrinsic
  txDispatchError, \* whether the extrinsic failed in its block
  cliOutput        \* lines the transfer command has printed

cliVars ==
  <<accounts, cliError, lastSaved, transferImpl, transferPc, txStatus, txDispatchError,
    cliOutput>>

(* Deployment tools: one run of a tool, the balance it read, and what it   *)
(* has submitted, reported and written.                                    *)
VARIABLES
  deployTool,      \* the tool that runs
  deployPc,        \* position of the run
  deployBalance,   \* free balance the tool read for the deployer
  deploySubmitted, \* whether the deployment transaction has been submitted
  deployReport,    \* what the tool has reported
  deploymentJson   \* whether deployment.json has been written

deployVars ==
  <<deployTool, deployPc, deployBalance, deploySubmitted, deployReport, deploymentJson>>

(* Connection pooling (utils/glin.ts): the module's client, the calls of   *)
(* GlinClient.connect made so far, and the getClient() calls in flight.    *)
VARIABLES
  client,          \* the module variable: a connection, or NoClient for null
  connectCalls,    \* number of GlinClient.connect invocations
  callers          \* per caller: position, pending connection, client returned

poolVars ==
  <<client, connectCalls, callers>>

(* Resilient event listener: where subscribe() stands, the setTimeout      *)
(* timers pending, and what the connection has gone through.               *)
VARIABLES
  listenerPc,      \* "idle", "connecting", "subscribing", "subscribed", "waiting"
  timers,          \* remaining delay, in ms, of every pending setTimeout(subscribe)
  disconnects,     \* 'disconnected' events so far
  failedAttempts   \* attempts that ended in the catch so far

listenerVars ==
  <<listenerPc, timers, disconnects, failedAttempts>>

(* Contract-event indexers (Event Indexing): the chain's best block, and   *)
(* for the TypeScript and the Rust indexer its position, the next block    *)
(* whose events it is handed, and the rows of its events table.            *)
VARIABLES
  eventHead,       \* number of the chain's latest block
  tsPc,            \* "idle", "header" or "subscribed"
  currentBlock,    \* let currentBlock = await client.api.rpc.chain.getHeader()
  tsNext,          \* block whose events the callback gets next
  tsRows,          \* rows of the TypeScript indexer's events table
  rustPc,          \* "idle" or "subscribed"
  rustNext,        \* block that blocks.next() yields next
  rustRows         \* rows of the Rust indexer's events table

eventVars ==
  <<eventHead, tsPc, currentBlock, tsNext, tsRows, rustPc, rustNext, rustRows>>

(* Batch event processing (Best Practices: Batch Event Processing): the    *)
(* events decoded so far, the pending eventBatch, the arrays passed to     *)
(* processBatch in call order, and which of them db.insert has stored.     *)
VARIABLES
  batchDecoded,    \* number of events decoded and pushed so far
  eventBatch,      \* const eventBatch = []
  batchPassed,     \* arguments of the calls of processBatch, in call order
  batchInserted    \* indices in batchPassed whose await db.insert returned

batchVars ==
  <<batchDecoded, eventBatch, batchPassed, batchInserted>>

(* The promise around tx.signAndSend in the TypeScript deployment tools:   *)
(* the tool, the state of the promise and what it settled with, the last   *)
(* result handed to the callback, and the lines the callback logged.       *)
VARIABLES
  sendTool,        \* the tool that called tx.signAndSend
  sendPc,          \* "idle", or the promise: "pending", "resolved", "rejected"
  sendValue,       \* the address resolved with, or the message of the Error
  resultStatus,    \* result.status of the last result
  resultContract,  \* result.contract?.address of the last result
  sendRetractions, \* times the block of the transaction was retracted
  sendLog,         \* lines logged by the callback
  sendAwait        \* the await on the promise: "none", "waiting", "returned", "threw"

sendVars ==
  <<sendTool, sendPc, sendValue, resultStatus, resultContract, sendRetractions, sendLog,
    sendAwait>>

exampleVars ==
  <<indexerVars, retryVars, cliVars, deployVars, poolVars, listenerVars,
    eventVars, batchVars, sendVars>>

nonIndexerVars ==
  <<siteVars, buildVars, authVars, retryVars, cliVars, deployVars,
    poolVars, listenerVars, eventVars, batchVars, sendVars>>

nonRetryVars ==
  <<siteVars, buildVars, authVars, indexerVars, cliVars, deployVars,
    poolVars, listenerVars, eventVars, batchVars, sendVars>>

nonCliVars ==
  <<siteVars, buildVars, authVars, indexerVars, retryVars, deployVars,
    poolVars, listenerVars, eventVars, batchVars, sendVars>>

nonDeployVars ==
  <<siteVars, buildVars, authVars, indexerVars, retryVars, cliVars,
    poolVars, listenerVars, eventVars, batchVars, sendVars>>

nonPoolVars ==
  <<siteVars, buildVars, authVars, indexerVars, retryVars, cliVars,
    deployVars, listenerVars, eventVars, batchVars, sendVars>>

nonListenerVars ==
  <<siteVars, buildVars, authVars, indexerVars, retryVars, cliVars,
    deployVars, poolVars, eventVars, batchVars, sendVars>>

nonEventsVars ==
  <<siteVars, buildVars, authVars, indexerVars, retryVars, cliVars,
    deployVars, poolVars, listenerVars, batchVars, sendVars>>

nonBatchVars ==
  <<siteVars, buildVars, authVars, indexerVars, retryVars, cliVars,
    deployVars, poolVars, listenerVars, eventVars, sendVars>>

nonSendVars ==
  <<siteVars, buildVars, authVars, indexerVars, retryVars, cliVars,
    deployVars, poolVars, listenerVars, eventVars, batchVars>>

vars ==
  <<siteVars, buildVars, authVars, exampleVars>>

(***************************************************************************)
(* Site validation                                                         *)
(***************************************************************************)

nonSiteVars ==
  <<buildVars, authVars, exampleVars>>

SiteInit ==
  /\ sitePhase = "docs"
  /\ cursor = 0
  /\ docIds = {}
  /\ routes = {}
  /\ served = {}
  /\ missingDocs = {}
  /\ missingSidebars = {}
  /\ brokenLinks = {}
  /\ badFences = {}

(* Moves to the next item, or to the next phase after the last one. *)
Advance(len, nextPhase) ==
  IF cursor + 1 = len
  THEN sitePhase' = nextPhase /\ cursor' = 0
  ELSE sitePhase' = sitePhase /\ cursor' = cursor + 1

(* The plugin loads one document file: it gets its id and its route. *)
LoadDoc ==
  /\ sitePhase = "docs"
  /\ LET f == DocFiles[cursor + 1] IN
       /\ docIds' = docIds \cup {DocId(f)}
       /\ routes' = routes \cup {DocRoute(f)}
       /\ served' = served \cup {<<f, DocRoute(f)>>}
  /\ Advance(Len(DocFiles), "sidebars")
  /\ UNCHANGED <<missingDocs, missingSidebars, brokenLinks, badFences>>
  /\ UNCHANGED nonSiteVars

(* One sidebar entry is resolved against the loaded document ids. *)
CheckSidebarRef ==
  /\ sitePhase = "sidebars"
  /\ LET r == SidebarRefs[cursor + 1] IN
       missingDocs' = IF r.id \in docIds THEN missingDocs ELSE missingDocs \cup {r}
  /\ Advance(Len(SidebarRefs), "navbar")
  /\ UNCHANGED <<docIds, routes, served, missingSidebars, brokenLinks, badFences>>
  /\ UNCHANGED nonSiteVars

(* One docSidebar navbar item is resolved against the sidebars. *)
CheckNavbarItem ==
  /\ sitePhase = "navbar"
  /\ LET it == NavbarSidebarIds[cursor + 1] IN
       missingSidebars' = IF it.sidebarId \in DOMAIN sidebars
                          THEN missingSidebars
                          ELSE missingSidebars \cup {it.sidebarId}
  /\ Advance(Len(NavbarSidebarIds), "links")
  /\ UNCHANGED <<docIds, routes, served, missingDocs, brokenLinks, badFences>>
  /\ UNCHANGED nonSiteVars

(* One internal link is resolved against the routes. *)
CheckLink ==
  /\ sitePhase = "links"
  /\ LET l == SiteLinks[cursor + 1] IN
       brokenLinks' = IF l.target \in routes THEN brokenLinks ELSE brokenLinks \cup {l}
  /\ Advance(Len(SiteLinks), "fences")
  /\ UNCHANGED <<docIds, routes, served, missingDocs, missingSidebars, badFences>>
  /\ UNCHANGED nonSiteVars

(* One code fence opening is checked for a recognised language tag. *)
CheckFence ==
  /\ sitePhase = "fences"
  /\ LET c == SiteFences[cursor + 1] IN
       badFences' = IF c.tag \in RecognisedLanguages THEN badFences ELSE badFences \cup {c}
  /\ Advance(Len(SiteFences), "done")
  /\ UNCHANGED <<docIds, routes, served, missingDocs, missingSidebars, brokenLinks>>
  /\ UNCHANGED nonSiteVars

SiteNext ==
  \/ LoadDoc
  \/ CheckSidebarRef
  \/ CheckNavbarItem
  \/ CheckLink
  \/ CheckFence

(***************************************************************************)
(* Build over some content: the steps of a build that the reporting levels *)
(* onBrokenLinks and onBrokenMarkdownLinks govern.  The resolution of the  *)
(* sidebars and of the navbar is in the site validation above.             *)
(***************************************************************************)

nonBuildVars ==
  <<siteVars, authVars, exampleVars>>

(* Content the builds are run over: document files of the repository,      *)
(* link targets its documents use, and references to markdown files.       *)
FilePool ==
  { SrcDocFiles[3], SrcDocFiles[4], SrcDocFiles[5] }

LinkPool ==
  { deploying_links[1][2], deploying_links[3][2], calling_links[2][2] }

MdRefPool ==
  { DocFile(<<"sdk", "contracts", "deploying">>, "md"),
    DocFile(<<"sdk", "contracts", "calling-methods">>, "md") }

BuildInit ==
  /\ buildPhase = "load"
  /\ contentFiles \in SUBSET FilePool
  /\ contentLinks \in SUBSET LinkPool
  /\ contentMdRefs \in SUBSET MdRefPool
  /\ buildRoutes = {}
  /\ buildWarnings = {}
  /\ siteProduced = FALSE

(* The build before it is started on any content. *)
BuildIdle ==
  /\ buildPhase = "load"
  /\ contentFiles = {}
  /\ contentLinks = {}
  /\ contentMdRefs = {}
  /\ buildRoutes = {}
  /\ buildWarnings = {}
  /\ siteProduced = FALSE

(* What a report of `found` does under a reporting level: the phase the    *)
(* build goes to and the warnings it adds.                                 *)
Report(level, kind, found, nextPhase) ==
  IF found = {} \/ level = "ignore"
  THEN [phase |-> nextPhase, warnings |-> {}]
  ELSE IF level = "throw"
       THEN [phase |-> "failed", warnings |-> {}]
       ELSE [phase |-> nextPhase, warnings |-> {<<kind, x>> : x \in found}]

(* The documents of the content are loaded and their routes created. *)
BuildLoadDocs ==
  /\ buildPhase = "load"
  /\ buildRoutes' = {DocRoute(f) : f \in contentFiles}
  /\ buildPhase' = "markdown"
  /\ UNCHANGED <<contentFiles, contentLinks, contentMdRefs, buildWarnings, siteProduced>>
  /\ UNCHANGED nonBuildVars

(* References to markdown files are resolved to the files of the content;  *)
(* the unresolvable ones are reported under onBrokenMarkdownLinks.         *)
BuildResolveMarkdownLinks ==
  /\ buildPhase = "markdown"
  /\ LET r == Report(onBrokenMarkdownLinks, "markdown link",
                     contentMdRefs \ contentFiles, "links") IN
       /\ buildPhase' = r.phase
       /\ buildWarnings' = buildWarnings \cup r.warnings
  /\ UNCHANGED <<contentFiles, contentLinks, contentMdRefs, buildRoutes, siteProduced>>
  /\ UNCHANGED nonBuildVars

(* Internal links are resolved to routes; the broken ones are reported    *)
(* under onBrokenLinks.  The build completes with a site unless the report *)
(* throws.                                                                 *)
BuildCheckBrokenLinks ==
  /\ buildPhase = "links"
  /\ LET r == Report(onBrokenLinks, "link", contentLinks \ buildRoutes, "done") IN
       /\ buildPhase' = r.phase
       /\ buildWarnings' = buildWarnings \cup r.warnings
       /\ siteProduced' = (r.phase = "done")
  /\ UNCHANGED <<contentFiles, contentLinks, contentMdRefs, buildRoutes>>
  /\ UNCHANGED nonBuildVars

BuildNext ==
  \/ BuildLoadDocs
  \/ BuildResolveMarkdownLinks
  \/ BuildCheckBrokenLinks

(***************************************************************************)
(* Sign in with GLIN (docs/sdk/examples/sign-in-with-glin)                 *)
(***************************************************************************)

nonAuthVars ==
  <<siteVars, buildVars, exampleVars>>

(* null / undefined *)
Null ==
  "null"

(* Wallet addresses, and a string that is no address. *)
Addresses ==
  {"5Alice", "5Bob"}

InvalidAddress ==
  "not-an-address"

(* Values Math.random() gives createAuthMessage: 1..MaxNonce. *)
MaxNonce ==
  1

(* The clock runs from 0 to MaxTicks steps of ClockStepMs. *)
MaxTicks ==
  2

ClockStepMs ==
  24 * 60 * 60 * 1000

(* Session ids generated at most. *)
MaxSessions ==
  2

(* 24 * 60 * 60 * 1000: 24 hours *)
SessionTtlMs ==
  24 * 60 * 60 * 1000

(* The mock address validateSession (lib/auth.ts) returns. *)
MockAddress ==
  "5GrwvaEF5zXb26Fz9rcQpDWS57CtERHpNehXCPcNoHGKutQY"

(* createAuthMessage, with the values of Math.random() and new Date(): the *)
(* text carries the address, the nonce and the time of issue.              *)
createAuthMessage(address, nonce, timestamp) ==
  [address |-> address, nonce |-> nonce, issuedAt |-> timestamp]

NoMessage ==
  [address |-> Null, nonce |-> 0, issuedAt |-> 0]

(* The signature the key of `signer` makes over the bytes of `message`     *)
(* (account.signer.signRaw).                                               *)
SignRaw(signer, message) ==
  [signer |-> signer, over |-> message]

(* A signature string that is no signature, such as '0xinvalid'. *)
MalformedSignature ==
  [signer |-> "0xinvalid", over |-> NoMessage]

NoSignature ==
  [signer |-> Null, over |-> NoMessage]

(* Whether hexToU8a / signatureVerify throw: on a signature that is no     *)
(* signature and on an address that cannot be decoded.                     *)
SignatureVerifyThrows(message, signature, address) ==
  signature.signer \notin Addresses \/ address \notin Addresses

(* signatureVerify of @polkadot/util-crypto: valid exactly when the        *)
(* signature was made by the key of `address` over `message`.              *)
signatureVerify(message, signature, address) ==
  [isValid |-> signature.signer = address /\ signature.over = message]

(* verifySignature with a catch that lets the request through. *)
verifySignature_catchTrue(address, message, signature) ==
  IF SignatureVerifyThrows(message, signature, address)
  THEN TRUE
  ELSE signatureVerify(message, signature, address).isValid

(* verifySignature (app/api/auth/signin/route.ts): false when anything     *)
(* throws.                                                                 *)
verifySignature(address, message, signature) ==
  IF SignatureVerifyThrows(message, signature, address)
  THEN FALSE
  ELSE signatureVerify(message, signature, address).isValid

(* generateSessionId: 'session_' + Math.random() + Date.now(); the n-th id *)
(* generated.                                                              *)
generateSessionId(n) ==
  <<"session_", n>>

(* generateSecureId (lib/session.ts): 32 random bytes in hex. *)
generateSecureId(n) ==
  <<"hex", n>>

NoSessionId ==
  <<Null, 0>>

EmptyString ==
  <<"", 0>>

(* A session id that no sign-in returned. *)
ForgedSessionId ==
  <<"session_", 0>>

(* NextResponse.json bodies and statuses; absent fields are Null. *)
Response(status, error, sessionId, address) ==
  [status |-> status, error |-> error, sessionId |-> sessionId, address |-> address]

NoResponse ==
  Response(0, Null, NoSessionId, Null)

(* A request body; parsed is FALSE when req.json() throws. *)
Body(address, message, signature) ==
  [parsed |-> TRUE, address |-> address, message |-> message, signature |-> signature]

UnparsableBody ==
  [parsed |-> FALSE, address |-> Null, message |-> NoMessage, signature |-> NoSignature]

NoRequest ==
  [parsed |-> FALSE, address |-> Null, message |-> NoMessage, signature |-> NoSignature]

(* The requests anyone may send to the sign-in route in the name of an     *)
(* address a, over a message for a: with a's signature over it, with       *)
(* another key's signature over it, with a's signature over another        *)
(* message, with no signature at all; with a string that is no address;    *)
(* with a body that cannot be read.                                        *)
MessagePool ==
  {createAuthMessage(a, n, 0) : a \in Addresses, n \in 1..MaxNonce}

SignaturePool(a, m) ==
  {SignRaw(a, m), MalformedSignature}
  \cup {SignRaw(b, m) : b \in Addresses \ {a}}
  \cup {SignRaw(a, createAuthMessage(b, m.nonce, 0)) : b \in Addresses \ {a}}

BodyPool ==
  UNION { {Body(m.address, m, s) : s \in SignaturePool(m.address, m)} : m \in MessagePool }
  \cup {Body(InvalidAddress, m, SignRaw(m.address, m)) : m \in MessagePool}
  \cup {UnparsableBody}

NoUser ==
  [address |-> Null, sessionId |-> NoSessionId]

AuthInit ==
  /\ now = 0
  /\ sessionSeq = 0
  /\ issued = {}
  /\ signInRequest = NoRequest
  /\ signInResponse = NoResponse
  /\ profileRequest = [header |-> NoSessionId, at |-> 0]
  /\ profileResponse = NoResponse
  /\ sessionTable = {}
  /\ clientPc = "unmounted"
  /\ user = NoUser
  /\ loading = TRUE
  /\ localStorage = [glin_session |-> NoSessionId, glin_address |-> Null]
  /\ authMessage = NoMessage
  /\ authSignature = NoSignature
  /\ fetchResponse = NoResponse
  /\ signedOut = {}

(* Time passes. *)
Tick ==
  /\ now + ClockStepMs <= MaxTicks * ClockStepMs
  /\ now' = now + ClockStepMs
  /\ UNCHANGED <<sessionSeq, issued, signInRequest, signInResponse, profileRequest,
                 profileResponse, sessionTable>>
  /\ UNCHANGED clientVars
  /\ UNCHANGED nonAuthVars

(* POST /api/auth/signin on a request body: 500 when the body cannot be    *)
(* read, 401 when the signature does not verify, else a new session id.    *)
(* The demo route stores nothing.                                          *)
POST(body) ==
  /\ signInRequest' = body
  /\ IF ~body.parsed
     THEN /\ signInResponse' = Response(500, "Authentication failed", NoSessionId, Null)
          /\ UNCHANGED <<sessionSeq, issued>>
     ELSE IF ~verifySignature(body.address, body.message, body.signature)
     THEN /\ signInResponse' = Response(401, "Invalid signature", NoSessionId, Null)
          /\ UNCHANGED <<sessionSeq, issued>>
     ELSE /\ sessionSeq < MaxSessions
          /\ LET sessionId == generateSessionId(sessionSeq + 1) IN
               /\ sessionSeq' = sessionSeq + 1
               /\ signInResponse' = Response(200, Null, sessionId, body.address)
               /\ issued' = issued \cup
                    {[sessionId |-> sessionId, address |-> body.address,
                      message |-> body.message, signature |-> body.signature,
                      createdAt |-> now]}
  /\ UNCHANGED <<now, profileRequest, profileResponse, sessionTable>>

(* Anyone sends a request to the sign-in route: one of the pool, or one    *)
(* the route has accepted before.                                          *)
SignInRequest ==
  /\ \E body \in BodyPool \cup {Body(s.address, s.message, s.signature) : s \in issued} :
       POST(body)
  /\ UNCHANGED clientVars
  /\ UNCHANGED nonAuthVars

(* validateSession (lib/auth.ts) on the x-session-id header: null without  *)
(* a header value, else the mock address.                                  *)
validateSession(sessionId) ==
  IF sessionId = NoSessionId \/ sessionId = EmptyString
  THEN Null
  ELSE MockAddress

(* GET /api/user/profile. *)
GET(header) ==
  /\ profileRequest' = [header |-> header, at |-> now]
  /\ LET address == validateSession(header) IN
       profileResponse' = IF address = Null
                          THEN Response(401, "Unauthorized", NoSessionId, Null)
                          ELSE Response(200, Null, NoSessionId, address)
  /\ UNCHANGED <<now, sessionSeq, issued, signInRequest, signInResponse, sessionTable>>

(* Anyone asks for the profile, with any x-session-id header. *)
ProfileRequest ==
  /\ \E header \in {NoSessionId, EmptyString, ForgedSessionId}
                   \cup {s.sessionId : s \in issued} :
       GET(header)
  /\ UNCHANGED clientVars
  /\ UNCHANGED nonAuthVars

(* createSession (lib/session.ts): a row that expires in 24 hours. *)
createSession(address) ==
  /\ sessionSeq < MaxSessions
  /\ sessionSeq' = sessionSeq + 1
  /\ sessionTable' = sessionTable \cup
       {[id |-> generateSecureId(sessionSeq + 1), address |-> address,
         expiresAt |-> now + SessionTtlMs]}
  /\ UNCHANGED <<now, issued, signInRequest, signInResponse, profileRequest,
                 profileResponse>>

(* validateSession (lib/session.ts): the address of the row with this id,  *)
(* null when there is none or it has expired.                              *)
SessionStoreValidate(sessionId) ==
  IF \E r \in sessionTable : r.id = sessionId /\ ~(r.expiresAt < now)
  THEN (CHOOSE r \in sessionTable : r.id = sessionId).address
  ELSE Null

(* deleteSession (lib/session.ts): removes the row with this id; the       *)
(* delete throws when there is none.                                       *)
deleteSession(sessionId) ==
  /\ \E r \in sessionTable : r.id = sessionId
  /\ sessionTable' = {r \in sessionTable : r.id # sessionId}
  /\ UNCHANGED <<now, sessionSeq, issued, signInRequest, signInResponse, profileRequest,
                 profileResponse>>

(* The session store is used directly; no route and no hook calls it. *)
SessionStoreCreate ==
  /\ \E address \in Addresses : createSession(address)
  /\ UNCHANGED clientVars
  /\ UNCHANGED nonAuthVars

SessionStoreDelete ==
  /\ \E r \in sessionTable : deleteSession(r.id)
  /\ UNCHANGED clientVars
  /\ UNCHANGED nonAuthVars

(* The hook's state when nothing is in flight. *)
NothingInFlight ==
  /\ authMessage' = NoMessage
  /\ authSignature' = NoSignature
  /\ fetchResponse' = NoResponse

(* useEffect on mount: restores the user from localStorage. *)
ClientMount ==
  /\ clientPc = "unmounted"
  /\ user' = IF localStorage.glin_session # NoSessionId /\ localStorage.glin_address # Null
             THEN [address |-> localStorage.glin_address,
                   sessionId |-> localStorage.glin_session]
             ELSE user
  /\ loading' = FALSE
  /\ clientPc' = "idle"
  /\ UNCHANGED <<localStorage, authMessage, authSignature, fetchResponse, signedOut>>
  /\ UNCHANGED serverVars
  /\ UNCHANGED nonAuthVars

(* signIn, steps 1 to 3: the wallet is enabled, its first account taken    *)
(* and the message created; without an extension or an account it throws.  *)
ClientSignInBegin ==
  /\ clientPc = "idle"
  /\ \/ /\ loading' = FALSE
        /\ UNCHANGED <<clientPc, authMessage>>
     \/ \E address \in Addresses, nonce \in 1..MaxNonce :
          /\ authMessage' = createAuthMessage(address, nonce, now)
          /\ loading' = TRUE
          /\ clientPc' = "sign"
  /\ UNCHANGED <<user, localStorage, authSignature, fetchResponse, signedOut>>
  /\ UNCHANGED serverVars
  /\ UNCHANGED nonAuthVars

(* signIn, step 4: the wallet signs the message, or the request is         *)
(* rejected and signIn throws.                                             *)
ClientSignRaw ==
  /\ clientPc = "sign"
  /\ \/ /\ authSignature' = SignRaw(authMessage.address, authMessage)
        /\ clientPc' = "fetch"
        /\ UNCHANGED <<loading, authMessage, fetchResponse>>
     \/ /\ NothingInFlight
        /\ loading' = FALSE
        /\ clientPc' = "idle"
  /\ UNCHANGED <<user, localStorage, signedOut>>
  /\ UNCHANGED serverVars
  /\ UNCHANGED nonAuthVars

(* signIn, step 5: the triple is sent to the backend. *)
ClientFetch ==
  /\ clientPc = "fetch"
  /\ POST(Body(authMessage.address, authMessage, authSignature))
  /\ fetchResponse' = signInResponse'
  /\ clientPc' = "save"
  /\ UNCHANGED <<user, loading, localStorage, authMessage, authSignature, signedOut>>
  /\ UNCHANGED nonAuthVars

(* signIn, step 6: throws unless the response is ok, else saves the        *)
(* session and sets the user.                                              *)
ClientSave ==
  /\ clientPc = "save"
  /\ IF fetchResponse.status \in 200..299
     THEN /\ localStorage' = [glin_session |-> fetchResponse.sessionId,
                              glin_address |-> authMessage.address]
          /\ user' = [address |-> authMessage.address,
                      sessionId |-> fetchResponse.sessionId]
     ELSE UNCHANGED <<localStorage, user>>
  /\ NothingInFlight
  /\ loading' = FALSE
  /\ clientPc' = "idle"
  /\ UNCHANGED signedOut
  /\ UNCHANGED serverVars
  /\ UNCHANGED nonAuthVars

(* signOut: removes glin_session and glin_address and sets the user to     *)
(* null.  Nothing is sent to the backend.                                  *)
signOut ==
  /\ clientPc # "unmounted"
  /\ localStorage' = [glin_session |-> NoSessionId, glin_address |-> Null]
  /\ user' = NoUser
  /\ signedOut' = IF user = NoUser THEN signedOut ELSE signedOut \cup {user.sessionId}
  /\ UNCHANGED <<clientPc, loading, authMessage, authSignature, fetchResponse>>
  /\ UNCHANGED serverVars
  /\ UNCHANGED nonAuthVars

(* The page is loaded again: the hook starts over, localStorage stays. *)
ClientReload ==
  /\ clientPc # "unmounted"
  /\ clientPc' = "unmounted"
  /\ user' = NoUser
  /\ loading' = TRUE
  /\ NothingInFlight
  /\ UNCHANGED <<localStorage, signedOut>>
  /\ UNCHANGED serverVars
  /\ UNCHANGED nonAuthVars

(* The backend's routes, called by anyone. *)
AuthNext ==
  \/ Tick
  \/ SignInRequest
  \/ ProfileRequest

(* One browser using the hook against the backend, and the session store. *)
SessionNext ==
  \/ Tick
  \/ SessionStoreCreate
  \/ SessionStoreDelete
  \/ ClientMount
  \/ ClientSignInBegin
  \/ ClientSignRaw
  \/ ClientFetch
  \/ ClientSave
  \/ signOut
  \/ ClientReload

(***************************************************************************)
(* Blockchain indexer (Example: Build Blockchain Indexer, TypeScript)      *)
(***************************************************************************)

(* Highest block number the chain reaches. *)
MaxHeight ==
  2

(* Reorganizations the chain goes through. *)
MaxReorgs ==
  1

(* Inserts that fail for a reason other than a unique constraint. *)
MaxInsertFailures ==
  1

(* Runs of main(). *)
MaxStarts ==
  2

(* New-head callbacks that can be in flight together: the subscription     *)
(* does not wait for the promise a callback returns.                       *)
Handlers ==
  {"h1", "h2"}

(* A block hash names the block's number and the branch it was produced    *)
(* on: branch 0 is the original chain, branch r the r-th reorganization.   *)
NoHash ==
  <<-1, 0>>

(* The branch of block number n once the first k reorganizations happened: *)
(* the latest of them that forked below n.                                 *)
BranchAt(n, k) ==
  LET later == {r \in 1..k : forks[r] < n}
  IN  IF later = {} THEN 0 ELSE CHOOSE r \in later : \A q \in later : q <= r

(* api.rpc.chain.getBlockHash(n): the canonical block of number n. *)
getBlockHash(n) ==
  <<n, BranchAt(n, Len(forks))>>

(* block.block.header.parentHash *)
parentHash(hash) ==
  IF hash[1] = 0 THEN NoHash ELSE <<hash[1] - 1, BranchAt(hash[1] - 1, hash[2])>>

(* An event record of system.events. *)
ChainEvent(section, method, data) ==
  [section |-> section, method |-> method, data |-> data]

(* api.query.system.events.at(blockHash): the events of a block. *)
BlockEvents(hash) ==
  IF hash[1] = 0 THEN <<>>
  ELSE IF hash[1] = 1
    THEN <<ChainEvent("balances", "Transfer", <<"alice", "bob", 10 + hash[2]>>)>>
    ELSE <<ChainEvent("system", "ExtrinsicSuccess", <<>>),
           ChainEvent("balances", "Transfer", <<"bob", "alice", hash[1] + hash[2]>>)>>

(* The condition under which processBlock stores a transfer row. *)
IsTransfer(event) ==
  event.section = "balances" /\ event.method = "Transfer"

(* The creates processBlock issues for a block, in order: the block, then  *)
(* for every event its row and, for a transfer, the transfer row.         *)
RECURSIVE EventWrites(_, _)
EventWrites(events, i) ==
  IF i > Len(events) THEN <<>>
  ELSE <<[table |-> "events", index |-> i - 1]>>
       \o (IF IsTransfer(events[i]) THEN <<[table |-> "transfers", index |-> i - 1]>> ELSE <<>>)
       \o EventWrites(events, i + 1)

Writes(hash) ==
  <<[table |-> "blocks", index |-> 0]>> \o EventWrites(BlockEvents(hash), 1)

(* The row a create of processBlock stores. *)
RowOf(write, hash, blockId) ==
  LET event == BlockEvents(hash)[write.index + 1]
  IN  IF write.table = "blocks"
        THEN [id |-> blockId, number |-> hash[1], hash |-> hash, parentHash |-> parentHash(hash)]
      ELSE IF write.table = "events"
        THEN [blockId |-> blockId, blockNumber |-> hash[1], eventIndex |-> write.index,
              section |-> event.section, method |-> event.method]
        ELSE [blockId |-> blockId, blockNumber |-> hash[1], from |-> event.data[1],
              to |-> event.data[2], amount |-> event.data[3]]

(* The schema's unique constraints: Block.number, Block.hash and           *)
(* Event(blockNumber, eventIndex).                                         *)
UniqueViolation(store, table, row) ==
  IF table = "blocks"
    THEN \E b \in store.blocks : b.number = row.number \/ b.hash = row.hash
  ELSE IF table = "events"
    THEN \E e \in store.events :
           e.blockNumber = row.blockNumber /\ e.eventIndex = row.eventIndex
    ELSE FALSE

NoRows ==
  [blocks |-> {}, events |-> {}, transfers |-> {}]

(* A create that takes effect at once, outside any transaction. *)
TxCreate_autocommit(store, pending, table, row) ==
  [store |-> [store EXCEPT ![table] = @ \cup {row}], pending |-> pending]

(* tx.<table>.create inside prisma.$transaction: the row is held by the    *)
(* transaction and the committed tables stay as they are.                  *)
TxCreate(store, pending, table, row) ==
  [store |-> store, pending |-> [pending EXCEPT ![table] = @ \cup {row}]]

(* The commit at the end of the $transaction callback. *)
TxCommit(store, pending) ==
  [blocks |-> store.blocks \cup pending.blocks,
   events |-> store.events \cup pending.events,
   transfers |-> store.transfers \cup pending.transfers]

(* The null getSyncState returns when the table is empty. *)
NoSyncState ==
  [lastBlock |-> -1, lastBlockHash |-> NoHash]

(* getSyncState: the row of the highest id, or null. *)
getSyncState ==
  IF syncStates = <<>> THEN NoSyncState ELSE syncStates[Len(syncStates)]

(* A start block that is the last stored block itself. *)
StartBlockOf_lastBlock(syncState) ==
  IF syncState # NoSyncState THEN syncState.lastBlock ELSE 0

(* const startBlock = syncState ? syncState.lastBlock + 1n : 0n *)
StartBlockOf(syncState) ==
  IF syncState # NoSyncState THEN syncState.lastBlock + 1 ELSE 0

(* A callback that is not running. *)
IdleHandler ==
  [pc |-> "idle", header |-> NoHash, i |-> 0, to |-> 0, ret |-> "head", hash |-> NoHash,
   step |-> 0, blockId |-> 0, tx |-> NoRows]

IndexerInit ==
  /\ chainHead = 0
  /\ forks = <<>>
  /\ db = NoRows
  /\ syncStates = <<>>
  /\ blockIdSeq = 0
  /\ isRunning = FALSE
  /\ startBlock = 0
  /\ subscribed = FALSE
  /\ lastHeader = NoHash
  /\ handlers = [h \in Handlers |-> IdleHandler]
  /\ insertFailures = 0
  /\ starts = 0

(* The chain produces a block on top of its best block. *)
NewBlock ==
  /\ chainHead < MaxHeight
  /\ chainHead' = chainHead + 1
  /\ UNCHANGED <<forks, db, syncStates, blockIdSeq, isRunning, startBlock, subscribed,
                 lastHeader, handlers, insertFailures, starts>>
  /\ UNCHANGED nonIndexerVars

(* The chain reorganizes: the blocks above `ancestor` are replaced by a    *)
(* branch that is at least as long.                                        *)
Reorg ==
  /\ Len(forks) < MaxReorgs
  /\ \E ancestor \in 0..(chainHead - 1), head \in chainHead..MaxHeight :
       /\ forks' = Append(forks, ancestor)
       /\ chainHead' = head
  /\ UNCHANGED <<db, syncStates, blockIdSeq, isRunning, startBlock, subscribed,
                 lastHeader, handlers, insertFailures, starts>>
  /\ UNCHANGED nonIndexerVars

(* main() up to Indexer.start(): isRunning is set, the start block is read *)
(* from the sync state and the subscription to new heads is made.         *)
start ==
  /\ ~subscribed
  /\ starts < MaxStarts
  /\ starts' = starts + 1
  /\ isRunning' = TRUE
  /\ startBlock' = StartBlockOf(getSyncState)
  /\ subscribed' = TRUE
  /\ lastHeader' = NoHash
  /\ UNCHANGED <<chainHead, forks, db, syncStates, blockIdSeq, handlers, insertFailures>>
  /\ UNCHANGED nonIndexerVars

(* SIGINT: Indexer.stop() and process.exit(0). The callbacks in flight end *)
(* with the process, and the database drops their open transactions.       *)
stop ==
  /\ subscribed
  /\ isRunning' = FALSE
  /\ subscribed' = FALSE
  /\ handlers' = [h \in Handlers |-> IdleHandler]
  /\ UNCHANGED <<chainHead, forks, db, syncStates, blockIdSeq, startBlock, lastHeader,
                 insertFailures, starts>>
  /\ UNCHANGED nonIndexerVars

(* The subscribeNewHeads callback up to its first await: with the head     *)
(* above startBlock it enters catchUp(startBlock, currentBlock), otherwise *)
(* it goes on to processNewBlock(header.hash).                             *)
OnNewHead(h) ==
  /\ subscribed
  /\ isRunning
  /\ handlers[h].pc = "idle"
  /\ h = CHOOSE g \in Handlers : handlers[g].pc = "idle"
  /\ lastHeader # getBlockHash(chainHead)
  /\ lastHeader' = getBlockHash(chainHead)
  /\ handlers' = [handlers EXCEPT ![h] =
       IF chainHead > startBlock
         THEN [IdleHandler EXCEPT !.pc = "catchUp", !.header = getBlockHash(chainHead),
                                  !.i = startBlock, !.to = chainHead]
         ELSE [IdleHandler EXCEPT !.pc = "processNewBlock",
                                  !.header = getBlockHash(chainHead),
                                  !.hash = getBlockHash(chainHead)]]
  /\ UNCHANGED <<chainHead, forks, db, syncStates, blockIdSeq, isRunning, startBlock,
                 subscribed, insertFailures, starts>>
  /\ UNCHANGED nonIndexerVars

(* One turn of catchUp's loop: the hash of block i is asked of the node    *)
(* and handed to processNewBlock; past the loop the callback goes on to    *)
(* processNewBlock(header.hash).                                           *)
catchUp(h) ==
  /\ handlers[h].pc = "catchUp"
  /\ handlers' = [handlers EXCEPT ![h] =
       IF handlers[h].i < handlers[h].to /\ isRunning
         THEN [@ EXCEPT !.pc = "processNewBlock", !.ret = "catchUp",
                        !.hash = getBlockHash(handlers[h].i)]
         ELSE [@ EXCEPT !.pc = "processNewBlock", !.ret = "head", !.hash = handlers[h].header]]
  /\ UNCHANGED <<chainHead, forks, db, syncStates, blockIdSeq, isRunning, startBlock,
                 subscribed, lastHeader, insertFailures, starts>>
  /\ UNCHANGED nonIndexerVars

(* processNewBlock up to processBlock's $transaction: the block and its    *)
(* events are fetched and the transaction is opened.                       *)
processNewBlock(h) ==
  /\ handlers[h].pc = "processNewBlock"
  /\ handlers' = [handlers EXCEPT ![h] =
       [@ EXCEPT !.pc = "processBlock", !.step = 0, !.blockId = 0, !.tx = NoRows]]
  /\ UNCHANGED <<chainHead, forks, db, syncStates, blockIdSeq, isRunning, startBlock,
                 subscribed, lastHeader, insertFailures, starts>>
  /\ UNCHANGED nonIndexerVars

(* The next create of processBlock's transaction succeeds. *)
processBlockCreate(h) ==
  LET hd == handlers[h]
      write == Writes(hd.hash)[hd.step + 1]
      id == IF write.table = "blocks" THEN blockIdSeq + 1 ELSE hd.blockId
      row == RowOf(write, hd.hash, id)
      after == TxCreate(db, hd.tx, write.table, row)
  IN  /\ hd.pc = "processBlock"
      /\ hd.step < Len(Writes(hd.hash))
      /\ ~UniqueViolation(db, write.table, row)
      /\ db' = after.store
      /\ blockIdSeq' = IF write.table = "blocks" THEN blockIdSeq + 1 ELSE blockIdSeq
      /\ handlers' = [handlers EXCEPT ![h] =
           [@ EXCEPT !.step = @ + 1, !.blockId = id, !.tx = after.pending]]
      /\ UNCHANGED <<chainHead, forks, syncStates, isRunning, startBlock, subscribed,
                     lastHeader, insertFailures, starts>>
      /\ UNCHANGED nonIndexerVars

(* The next create of processBlock's transaction throws, for a unique      *)
(* constraint or for any other reason: the transaction is rolled back, and *)
(* processNewBlock logs the error and rethrows it, which ends the          *)
(* callback.                                                               *)
processBlockThrow(h) ==
  LET hd == handlers[h]
      write == Writes(hd.hash)[hd.step + 1]
      id == IF write.table = "blocks" THEN blockIdSeq + 1 ELSE hd.blockId
      row == RowOf(write, hd.hash, id)
  IN  /\ hd.pc = "processBlock"
      /\ hd.step < Len(Writes(hd.hash))
      /\ \/ /\ UniqueViolation(db, write.table, row)
            /\ UNCHANGED insertFailures
         \/ /\ insertFailures < MaxInsertFailures
            /\ insertFailures' = insertFailures + 1
      /\ handlers' = [handlers EXCEPT ![h] = IdleHandler]
      /\ UNCHANGED <<chainHead, forks, db, syncStates, blockIdSeq, isRunning, startBlock,
                     subscribed, lastHeader, starts>>
      /\ UNCHANGED nonIndexerVars

(* The end of the $transaction callback: the rows the transaction holds    *)
(* are committed together; a block another transaction committed meanwhile *)
(* makes the commit fail as a create would.                                *)
processBlockCommit(h) ==
  LET hd == handlers[h]
  IN  /\ hd.pc = "processBlock"
      /\ hd.step = Len(Writes(hd.hash))
      /\ IF \E b \in hd.tx.blocks : UniqueViolation(db, "blocks", b)
           THEN /\ handlers' = [handlers EXCEPT ![h] = IdleHandler]
                /\ UNCHANGED db
           ELSE /\ db' = TxCommit(db, hd.tx)
                /\ handlers' = [handlers EXCEPT ![h] =
                     [@ EXCEPT !.pc = "updateSyncState", !.tx = NoRows]]
      /\ UNCHANGED <<chainHead, forks, syncStates, blockIdSeq, isRunning, startBlock,
                     subscribed, lastHeader, insertFailures, starts>>
      /\ UNCHANGED nonIndexerVars

(* processNewBlock after processBlock: updateSyncState(blockNumber,        *)
(* blockHash) creates a sync-state row, and control returns to catchUp's   *)
(* loop or the callback ends.                                              *)
updateSyncState(h) ==
  LET hd == handlers[h]
  IN  /\ hd.pc = "updateSyncState"
      /\ syncStates' = Append(syncStates,
                              [lastBlock |-> hd.hash[1], lastBlockHash |-> hd.hash])
      /\ handlers' = [handlers EXCEPT ![h] =
           IF hd.ret = "catchUp"
             THEN [@ EXCEPT !.pc = "catchUp", !.i = @ + 1]
             ELSE IdleHandler]
      /\ UNCHANGED <<chainHead, forks, db, blockIdSeq, isRunning, startBlock, subscribed,
                     lastHeader, insertFailures, starts>>
      /\ UNCHANGED nonIndexerVars

(* handleReorg(newHead), called with the chain's best block. Its common    *)
(* ancestor is the highest stored block that is on the chain of newHead;   *)
(* deleteMany removes the blocks above it, and onDelete: Cascade removes   *)
(* their events and transfers. The sync-state table is not touched.        *)
handleReorg ==
  LET onChain == {b \in db.blocks : b.hash = getBlockHash(b.number)}
      commonBlock == CHOOSE b \in onChain : \A c \in onChain : c.number <= b.number
      deleted == {b \in db.blocks : b.number > commonBlock.number}
      deletedIds == {b.id : b \in deleted}
  IN  /\ onChain # {}
      /\ deleted # {}
      /\ db' = [blocks |-> db.blocks \ deleted,
                events |-> {e \in db.events : e.blockId \notin deletedIds},
                transfers |-> {t \in db.transfers : t.blockId \notin deletedIds}]
      /\ UNCHANGED <<chainHead, forks, syncStates, blockIdSeq, isRunning, startBlock,
                     subscribed, lastHeader, handlers, insertFailures, starts>>
      /\ UNCHANGED nonIndexerVars

IndexerNext ==
  \/ NewBlock
  \/ Reorg
  \/ start
  \/ stop
  \/ \E h \in Handlers : OnNewHead(h)
  \/ \E h \in Handlers : catchUp(h)
  \/ \E h \in Handlers : processNewBlock(h)
  \/ \E h \in Handlers : processBlockCreate(h)
  \/ \E h \in Handlers : processBlockThrow(h)
  \/ \E h \in Handlers : processBlockCommit(h)
  \/ \E h \in Handlers : updateSyncState(h)
  \/ handleReorg

(***************************************************************************)
(* Retry logic of the indexer (processWithRetry)                           *)
(***************************************************************************)

(* Largest maxRetries a call is made with. *)
MaxRetriesArg ==
  5

(* maxRetries = 3, the parameter's default *)
DefaultMaxRetries ==
  3

(* The factor of sleep(1000 * (i + 1)). *)
RetryDelayMs ==
  1000

(* The delay slept after the failure of attempt i (counted from 0). *)
RetryDelay(i) ==
  RetryDelayMs * (i + 1)

RetryInit ==
  /\ retryPc = "idle"
  /\ retryBlock = 0
  /\ maxRetries = DefaultMaxRetries
  /\ retryI = 0
  /\ retryDelays = <<>>

(* processWithRetry(blockNumber, maxRetries) is called; i = 0. *)
processWithRetry ==
  /\ retryPc = "idle"
  /\ \E blockNumber \in 0..MaxHeight, retries \in 1..MaxRetriesArg :
       /\ retryBlock' = blockNumber
       /\ maxRetries' = retries
  /\ retryPc' = "attempt"
  /\ retryI' = 0
  /\ retryDelays' = <<>>
  /\ UNCHANGED nonRetryVars

(* await processBlock(blockNumber) succeeds: return. *)
RetryAttemptSucceeds ==
  /\ retryPc = "attempt"
  /\ retryPc' = "returned"
  /\ UNCHANGED <<retryBlock, maxRetries, retryI, retryDelays>>
  /\ UNCHANGED nonRetryVars

(* await processBlock(blockNumber) throws: the last attempt rethrows, an   *)
(* earlier one sleeps 1000 * (i + 1).                                      *)
RetryAttemptFails ==
  /\ retryPc = "attempt"
  /\ IF retryI = maxRetries - 1
       THEN /\ retryPc' = "thrown"
            /\ UNCHANGED retryDelays
       ELSE /\ retryPc' = "sleep"
            /\ retryDelays' = Append(retryDelays, RetryDelay(retryI))
  /\ UNCHANGED <<retryBlock, maxRetries, retryI>>
  /\ UNCHANGED nonRetryVars

(* The sleep ends: i++ and the next attempt. *)
RetryWake ==
  /\ retryPc = "sleep"
  /\ retryI' = retryI + 1
  /\ retryPc' = "attempt"
  /\ UNCHANGED <<retryBlock, maxRetries, retryDelays>>
  /\ UNCHANGED nonRetryVars

RetryNext ==
  \/ processWithRetry
  \/ RetryAttemptSucceeds
  \/ RetryAttemptFails
  \/ RetryWake

(***************************************************************************)
(* GLIN CLI (Example: Build CLI Tool, TypeScript and Rust)                 *)
(***************************************************************************)

(* Account names the commands are given. *)
AccountNames ==
  {"my-account", "backup", "test"}

(* Mnemonics the commands generate or are given. *)
Mnemonics ==
  {"mnemonic-a", "mnemonic-b"}

(* keyring.addFromMnemonic(mnemonic).address *)
AddressOfMnemonic(mnemonic) ==
  <<"address-of", mnemonic>>

(* interface Account / struct Account *)
Account(name, mnemonic) ==
  [name |-> name, address |-> AddressOfMnemonic(mnemonic), mnemonic |-> mnemonic]

NoAccount ==
  [name |-> Null, address |-> <<"address-of", Null>>, mnemonic |-> Null]

(* No error: the command ended normally. *)
NoError ==
  <<>>

(* `Account "${account.name}" already exists` *)
AlreadyExists(name) ==
  <<"Account \"", name, "\" already exists">>

(* A save that pushes the account without looking at the names stored. *)
saveAccount_noCheck(list, account) ==
  [accounts |-> Append(list, account), error |-> NoError]

(* saveAccount (TypeScript): throws when some stored account has the name, *)
(* otherwise pushes the account and stores the list.                       *)
saveAccount(list, account) ==
  IF \E k \in 1..Len(list) : list[k].name = account.name
    THEN [accounts |-> list, error |-> AlreadyExists(account.name)]
    ELSE [accounts |-> Append(list, account), error |-> NoError]

(* save_account (Rust): bails when any stored account has the name,        *)
(* otherwise pushes the account and saves the storage.                     *)
save_account(list, account) ==
  IF \E k \in 1..Len(list) : list[k].name = account.name
    THEN [accounts |-> list, error |-> AlreadyExists(account.name)]
    ELSE [accounts |-> Append(list, account), error |-> NoError]

(* Lines the transfer commands print. *)
MsgCancelled ==
  "Transfer cancelled"

MsgInBlock ==
  "In block"

MsgFinalized ==
  "Transaction finalized!"

MsgDone ==
  "Done!"

MsgSuccess ==
  "Transfer successful!"

MsgError ==
  "Error"

CliInit ==
  /\ accounts = <<>>
  /\ cliError = NoError
  /\ lastSaved = NoAccount
  /\ transferImpl = "ts"
  /\ transferPc = "idle"
  /\ txStatus = "none"
  /\ txDispatchError = FALSE
  /\ cliOutput = {}

(* glin account create / import: the account is handed to the storage of   *)
(* the CLI that runs, and the command ends with the storage's error.       *)
AccountCommand ==
  /\ \E impl \in {"ts", "rust"}, name \in AccountNames, mnemonic \in Mnemonics :
       LET result == IF impl = "ts" THEN saveAccount(accounts, Account(name, mnemonic))
                     ELSE save_account(accounts, Account(name, mnemonic))
       IN  /\ accounts' = result.accounts
           /\ cliError' = result.error
           /\ lastSaved' = Account(name, mnemonic)
  /\ UNCHANGED <<transferImpl, transferPc, txStatus, txDispatchError, cliOutput>>
  /\ UNCHANGED nonCliVars

(* glin transfer up to the confirmation: accounts are loaded (none stored  *)
(* ends the command), the sender is selected, and the transfer is          *)
(* confirmed or cancelled.                                                 *)
TransferCommand ==
  /\ transferPc = "idle"
  /\ \E impl \in {"ts", "rust"}, confirm \in BOOLEAN :
       /\ transferImpl' = impl
       /\ IF accounts = <<>>
            THEN /\ transferPc' = "failed"
                 /\ cliOutput' = {MsgError}
            ELSE IF ~confirm
              THEN /\ transferPc' = "cancelled"
                   /\ cliOutput' = {MsgCancelled}
              ELSE /\ transferPc' = "sending"
                   /\ cliOutput' = {}
  /\ UNCHANGED <<accounts, cliError, lastSaved, txStatus, txDispatchError>>
  /\ UNCHANGED nonCliVars

(* TypeScript: transfer.signAndSend(signer, callback) submits the          *)
(* extrinsic; the command waits on the promise the callback settles.       *)
TsSignAndSend ==
  /\ transferPc = "sending"
  /\ transferImpl = "ts"
  /\ txStatus' = "ready"
  /\ transferPc' = "waiting"
  /\ UNCHANGED <<accounts, cliError, lastSaved, transferImpl, txDispatchError, cliOutput>>
  /\ UNCHANGED nonCliVars

(* Rust: sign_and_submit_default(...).await? returns the hash once the     *)
(* extrinsic is submitted, and the command prints its result.              *)
RustSignAndSubmit ==
  /\ transferPc = "sending"
  /\ transferImpl = "rust"
  /\ txStatus' = "ready"
  /\ transferPc' = "done"
  /\ cliOutput' = cliOutput \cup {MsgDone, MsgSuccess}
  /\ UNCHANGED <<accounts, cliError, lastSaved, transferImpl, txDispatchError>>
  /\ UNCHANGED nonCliVars

(* The chain includes the extrinsic in a block; it succeeds or fails with  *)
(* a dispatch error there.                                                 *)
TxInBlock ==
  /\ txStatus = "ready"
  /\ txStatus' = "inBlock"
  /\ \E failed \in BOOLEAN : txDispatchError' = failed
  /\ UNCHANGED <<accounts, cliError, lastSaved, transferImpl, transferPc, cliOutput>>
  /\ UNCHANGED nonCliVars

(* The block with the extrinsic is finalized. *)
TxFinalized ==
  /\ txStatus = "inBlock"
  /\ txStatus' = "finalized"
  /\ UNCHANGED <<accounts, cliError, lastSaved, transferImpl, transferPc, txDispatchError,
                 cliOutput>>
  /\ UNCHANGED nonCliVars

(* The callback of signAndSend for the status the extrinsic has: in a      *)
(* block the spinner text is set; finalized, the promise is rejected on a  *)
(* dispatch error, which the catch reports, and resolved otherwise, after  *)
(* which the command prints its result.                                    *)
TsStatusCallback ==
  /\ transferPc = "waiting"
  /\ \/ /\ txStatus = "inBlock"
        /\ MsgInBlock \notin cliOutput
        /\ cliOutput' = cliOutput \cup {MsgInBlock}
        /\ UNCHANGED transferPc
     \/ /\ txStatus = "finalized"
        /\ IF txDispatchError
             THEN /\ cliOutput' = cliOutput \cup {MsgError}
                  /\ transferPc' = "failed"
             ELSE /\ cliOutput' = cliOutput \cup {MsgFinalized, MsgSuccess}
                  /\ transferPc' = "done"
  /\ UNCHANGED <<accounts, cliError, lastSaved, transferImpl, txStatus, txDispatchError>>
  /\ UNCHANGED nonCliVars

CliNext ==
  \/ AccountCommand
  \/ TransferCommand
  \/ TsSignAndSend
  \/ RustSignAndSubmit
  \/ TxInBlock
  \/ TxFinalized
  \/ TsStatusCallback

(***************************************************************************)
(* Deployment tools (Example: Deploy a Smart Contract; Deploying           *)
(* Contracts)                                                              *)
(*                                                                         *)
(* A balance in base units is written in two parts of nine decimal digits: *)
(* [hi |-> h, lo |-> l] is h * 10^9 + l with 0 <= l < 10^9, so that 1 GLIN *)
(* = 10^18 base units is [hi |-> 10^9, lo |-> 0].                          *)
(***************************************************************************)

(* h * 10^9 + l base units *)
Units(h, l) ==
  [hi |-> h, lo |-> l]

(* a < b on balances *)
BalanceLess(a, b) ==
  a.hi < b.hi \/ (a.hi = b.hi /\ a.lo < b.lo)

(* A minimum of 10^9 base units, nine digits short of 1 GLIN. *)
minBalance_gwei ==
  Units(1, 0)

(* 10n ** 18n / 1_000_000_000_000_000_000: 1 GLIN *)
minBalance ==
  Units(1000000000, 0)

(* The free balances the deployer is found with: nothing, one base unit,   *)
(* half a GLIN, one base unit less than 1 GLIN, 1 GLIN, one base unit      *)
(* more, 2 GLIN.                                                           *)
Balances ==
  {Units(0, 0), Units(0, 1), Units(500000000, 0), Units(999999999, 999999999),
   Units(1000000000, 0), Units(1000000000, 1), Units(2000000000, 0)}

(* The tools: deploy_contract_cmd (Rust) and deployContract (TypeScript)   *)
(* of the example, deploy of scripts/deploy.ts, deployWithErrorHandling.   *)
DeployTools ==
  {"deploy_contract_cmd", "deployContract", "deploy", "deployWithErrorHandling"}

(* The tools that save the deployment info to deployment.json. *)
ToolsSavingInfo ==
  {"deploy_contract_cmd", "deployContract", "deploy"}

(* What a tool reports on a balance below the minimum: the example's tools *)
(* print the line and return, scripts/deploy.ts throws it to the catch     *)
(* that prints it, deployWithErrorHandling's catch prints its own line.    *)
InsufficientReport(tool) ==
  IF tool = "deployWithErrorHandling" THEN "Insufficient balance for deployment"
  ELSE "Insufficient balance (need at least 1 GLIN)"

NoReport ==
  "none"

DeployInit ==
  /\ deployTool = "deploy"
  /\ deployPc = "idle"
  /\ deployBalance = Units(0, 0)
  /\ deploySubmitted = FALSE
  /\ deployReport = NoReport
  /\ deploymentJson = FALSE

(* A tool is run: it connects, loads the deployer and reads its balance. *)
DeployGetBalance ==
  /\ deployPc = "idle"
  /\ \E tool \in DeployTools, balance \in Balances :
       /\ deployTool' = tool
       /\ deployBalance' = balance
  /\ deployPc' = "balance"
  /\ UNCHANGED <<deploySubmitted, deployReport, deploymentJson>>
  /\ UNCHANGED nonDeployVars

(* if (balance.free < 10n ** 18n): the tool reports and ends, or goes on   *)
(* to the deployment.                                                      *)
DeployCheckBalance ==
  /\ deployPc = "balance"
  /\ IF BalanceLess(deployBalance, minBalance)
       THEN /\ deployReport' = InsufficientReport(deployTool)
            /\ deployPc' = "ended"
       ELSE /\ deployPc' = "deploying"
            /\ UNCHANGED deployReport
  /\ UNCHANGED <<deployTool, deployBalance, deploySubmitted, deploymentJson>>
  /\ UNCHANGED nonDeployVars

(* The deployment transaction is built and submitted (tx.signAndSend /     *)
(* deploy_contract).                                                       *)
DeploySubmit ==
  /\ deployPc = "deploying"
  /\ deploySubmitted' = TRUE
  /\ deployPc' = "submitted"
  /\ UNCHANGED <<deployTool, deployBalance, deployReport, deploymentJson>>
  /\ UNCHANGED nonDeployVars

(* The deployment ends: with a contract address the tool reports success   *)
(* and, where it saves the deployment info, writes deployment.json;        *)
(* without one it reports the failure.                                     *)
DeployResult ==
  /\ deployPc = "submitted"
  /\ \E success \in BOOLEAN :
       IF success
         THEN /\ deployReport' = "Deployment successful"
              /\ deploymentJson' = (deployTool \in ToolsSavingInfo)
         ELSE /\ deployReport' = "Deployment failed"
              /\ UNCHANGED deploymentJson
  /\ deployPc' = "ended"
  /\ UNCHANGED <<deployTool, deployBalance, deploySubmitted>>
  /\ UNCHANGED nonDeployVars

(* The next run of a tool, in a directory without deployment.json. *)
DeployAgain ==
  /\ deployPc = "ended"
  /\ deployPc' = "idle"
  /\ deploySubmitted' = FALSE
  /\ deployReport' = NoReport
  /\ deploymentJson' = FALSE
  /\ UNCHANGED <<deployTool, deployBalance>>
  /\ UNCHANGED nonDeployVars

DeployNext ==
  \/ DeployGetBalance
  \/ DeployCheckBalance
  \/ DeploySubmit
  \/ DeployResult
  \/ DeployAgain

(***************************************************************************)
(* Connection pooling (TypeScript setup: getClient)                        *)
(***************************************************************************)

(* The code that calls getClient(), each once. *)
Callers ==
  {"a", "b", "c"}

(* let client: GlinClient | null = null. A connection is named by the      *)
(* number of the connect call that made it.                                *)
NoClient ==
  0

IdleCaller ==
  [pc |-> "idle", pending |-> NoClient, returned |-> NoClient]

PoolInit ==
  /\ client = NoClient
  /\ connectCalls = 0
  /\ callers = [c \in Callers |-> IdleCaller]

(* getClient() up to its await: with a client set it returns it, otherwise *)
(* it invokes GlinClient.connect and waits for the promise.                *)
getClient(c) ==
  /\ callers[c].pc = "idle"
  /\ IF client = NoClient
       THEN /\ connectCalls' = connectCalls + 1
            /\ callers' = [callers EXCEPT ![c] =
                 [@ EXCEPT !.pc = "connecting", !.pending = connectCalls + 1]]
       ELSE /\ callers' = [callers EXCEPT ![c] =
                 [@ EXCEPT !.pc = "returned", !.returned = client]]
            /\ UNCHANGED connectCalls
  /\ UNCHANGED client
  /\ UNCHANGED nonPoolVars

(* The connect promise resolves: client is assigned and returned. *)
getClientResume(c) ==
  /\ callers[c].pc = "connecting"
  /\ client' = callers[c].pending
  /\ callers' = [callers EXCEPT ![c] =
       [@ EXCEPT !.pc = "returned", !.pending = NoClient, !.returned = callers[c].pending]]
  /\ UNCHANGED connectCalls
  /\ UNCHANGED nonPoolVars

(* The connect promise rejects: getClient() rejects and client stays as it *)
(* is.                                                                     *)
getClientReject(c) ==
  /\ callers[c].pc = "connecting"
  /\ callers' = [callers EXCEPT ![c] = [@ EXCEPT !.pc = "rejected", !.pending = NoClient]]
  /\ UNCHANGED <<client, connectCalls>>
  /\ UNCHANGED nonPoolVars

PoolNext ==
  \/ \E c \in Callers : getClient(c)
  \/ \E c \in Callers : getClientResume(c)
  \/ \E c \in Callers : getClientReject(c)

(***************************************************************************)
(* Resilient event listener (Contract Events: Handle Connection Drops)     *)
(***************************************************************************)

(* Connection drops the node goes through. *)
MaxDisconnects ==
  3

(* Attempts (connect or subscribe) that fail. *)
MaxFailedAttempts ==
  3

(* setTimeout(subscribe, 5000) *)
ReconnectDelayMs ==
  5000

(* Time passes in steps of a second. *)
TickMs ==
  ReconnectDelayMs \div 5

(* A catch or disconnect handler that only logs. *)
ScheduleSubscribe_logOnly(pending) ==
  pending

(* setTimeout(subscribe, 5000) *)
ScheduleSubscribe(pending) ==
  Append(pending, ReconnectDelayMs)

ListenerInit ==
  /\ listenerPc = "idle"
  /\ timers = <<>>
  /\ disconnects = 0
  /\ failedAttempts = 0

(* resilientEventListener(): the first subscribe(). *)
resilientEventListener ==
  /\ listenerPc = "idle"
  /\ listenerPc' = "connecting"
  /\ UNCHANGED <<timers, disconnects, failedAttempts>>
  /\ UNCHANGED nonListenerVars

(* await GlinClient.connect(...) resolves: subscribe() goes on to          *)
(* client.api.query.system.events.                                         *)
ConnectSucceeds ==
  /\ listenerPc = "connecting"
  /\ listenerPc' = "subscribing"
  /\ UNCHANGED <<timers, disconnects, failedAttempts>>
  /\ UNCHANGED nonListenerVars

(* await GlinClient.connect(...) rejects: the catch logs and schedules     *)
(* subscribe.                                                              *)
ConnectFails ==
  /\ listenerPc = "connecting"
  /\ failedAttempts < MaxFailedAttempts
  /\ failedAttempts' = failedAttempts + 1
  /\ timers' = ScheduleSubscribe(timers)
  /\ listenerPc' = "waiting"
  /\ UNCHANGED disconnects
  /\ UNCHANGED nonListenerVars

(* await client.api.query.system.events(...) resolves: the subscription is *)
(* live and the 'disconnected' handler is registered.                      *)
SubscribeSucceeds ==
  /\ listenerPc = "subscribing"
  /\ listenerPc' = "subscribed"
  /\ UNCHANGED <<timers, disconnects, failedAttempts>>
  /\ UNCHANGED nonListenerVars

(* await client.api.query.system.events(...) rejects, as when the          *)
(* connection drops before the subscription is made: the catch logs and    *)
(* schedules subscribe.                                                    *)
SubscribeFails ==
  /\ listenerPc = "subscribing"
  /\ failedAttempts < MaxFailedAttempts
  /\ failedAttempts' = failedAttempts + 1
  /\ timers' = ScheduleSubscribe(timers)
  /\ listenerPc' = "waiting"
  /\ UNCHANGED disconnects
  /\ UNCHANGED nonListenerVars

(* The 'disconnected' handler: it logs, calls unsub() and schedules        *)
(* subscribe.                                                              *)
OnDisconnected ==
  /\ listenerPc = "subscribed"
  /\ disconnects < MaxDisconnects
  /\ disconnects' = disconnects + 1
  /\ timers' = ScheduleSubscribe(timers)
  /\ listenerPc' = "waiting"
  /\ UNCHANGED failedAttempts
  /\ UNCHANGED nonListenerVars

(* A second passes. *)
ListenerTick ==
  /\ timers # <<>>
  /\ \A k \in 1..Len(timers) : timers[k] > 0
  /\ timers' = [k \in 1..Len(timers) |-> timers[k] - TickMs]
  /\ UNCHANGED <<listenerPc, disconnects, failedAttempts>>
  /\ UNCHANGED nonListenerVars

(* A timer is due: subscribe() runs. *)
TimerFires ==
  /\ timers # <<>>
  /\ timers[1] <= 0
  /\ timers' = Tail(timers)
  /\ listenerPc' = "connecting"
  /\ UNCHANGED <<disconnects, failedAttempts>>
  /\ UNCHANGED nonListenerVars

ListenerNext ==
  \/ resilientEventListener
  \/ ConnectSucceeds
  \/ ConnectFails
  \/ SubscribeSucceeds
  \/ SubscribeFails
  \/ OnDisconnected
  \/ ListenerTick
  \/ TimerFires

(***************************************************************************)
(* Contract-event indexers (Contract Events: Event Indexing)               *)
(***************************************************************************)

(* Highest block number the chain of the event indexers reaches. *)
MaxEventHeight ==
  3

(* contractAddress, and the address of another contract. *)
contractAddress ==
  "contract"

otherContract ==
  "other-contract"

(* A ContractEmitted event as decoded by the contract's metadata. *)
ContractEmitted(contractAddr, identifier, from, to, value) ==
  [contractAddr |-> contractAddr, identifier |-> identifier, from |-> from, to |-> to,
   value |-> value]

(* The contract events of block n; a Transfer's value names the block it   *)
(* is emitted in.                                                          *)
ContractEvents(n) ==
  IF n % 2 = 1
    THEN <<ContractEmitted(contractAddress, "Transfer", "alice", "bob", 100 + n),
           ContractEmitted(contractAddress, "Approval", "alice", "bob", 100 + n)>>
    ELSE <<ContractEmitted(otherContract, "Transfer", "bob", "alice", 100 + n),
           ContractEmitted(contractAddress, "Transfer", "bob", "carol", 100 + n)>>

(* The events the indexers store: Transfer events of contractAddress. *)
IsContractTransfer(event) ==
  event.contractAddr = contractAddress /\ event.identifier = "Transfer"

(* The row of the INSERT for an event, with the block number bound to it. *)
EventRow(blockNumber, event) ==
  [block_number |-> blockNumber, event_name |-> "Transfer", from_address |-> event.from,
   to_address |-> event.to, value |-> event.value]

(* The rows inserted for the events of block n, each with the block number *)
(* the indexer binds.                                                      *)
RECURSIVE RowsFor(_, _, _)
RowsFor(events, k, blockNumber) ==
  IF k > Len(events) THEN <<>>
  ELSE (IF IsContractTransfer(events[k]) THEN <<EventRow(blockNumber, events[k])>> ELSE <<>>)
       \o RowsFor(events, k + 1, blockNumber)

EventsInit ==
  /\ eventHead = 0
  /\ tsPc = "idle"
  /\ currentBlock = 0
  /\ tsNext = 0
  /\ tsRows = <<>>
  /\ rustPc = "idle"
  /\ rustNext = 0
  /\ rustRows = <<>>

(* The chain produces a block. *)
EventChainBlock ==
  /\ eventHead < MaxEventHeight
  /\ eventHead' = eventHead + 1
  /\ UNCHANGED <<tsPc, currentBlock, tsNext, tsRows, rustPc, rustNext, rustRows>>
  /\ UNCHANGED nonEventsVars

(* indexEvents() up to the subscription: the table is set up and           *)
(* currentBlock is read from the chain's header.                           *)
indexEvents ==
  /\ tsPc = "idle"
  /\ tsPc' = "header"
  /\ currentBlock' = eventHead
  /\ UNCHANGED <<eventHead, tsNext, tsRows, rustPc, rustNext, rustRows>>
  /\ UNCHANGED nonEventsVars

(* client.api.query.system.events(callback): the callback is first called  *)
(* with the events of the block that is the latest then.                   *)
indexEventsSubscribe ==
  /\ tsPc = "header"
  /\ tsPc' = "subscribed"
  /\ tsNext' = eventHead
  /\ UNCHANGED <<eventHead, currentBlock, tsRows, rustPc, rustNext, rustRows>>
  /\ UNCHANGED nonEventsVars

(* The callback with the events of the next block: every Transfer of the   *)
(* contract is inserted with currentBlock.number.toNumber().               *)
indexEventsCallback ==
  /\ tsPc = "subscribed"
  /\ tsNext <= eventHead
  /\ tsRows' = tsRows \o RowsFor(ContractEvents(tsNext), 1, currentBlock)
  /\ tsNext' = tsNext + 1
  /\ UNCHANGED <<eventHead, tsPc, currentBlock, rustPc, rustNext, rustRows>>
  /\ UNCHANGED nonEventsVars

(* index_events() up to the loop: client.blocks().subscribe_finalized(). *)
index_events ==
  /\ rustPc = "idle"
  /\ rustPc' = "subscribed"
  /\ rustNext' = eventHead
  /\ UNCHANGED <<eventHead, tsPc, currentBlock, tsNext, tsRows, rustRows>>
  /\ UNCHANGED nonEventsVars

(* One turn of the loop over blocks.next(): every Transfer of the contract *)
(* in the block is inserted with block.number().                           *)
index_events_block ==
  /\ rustPc = "subscribed"
  /\ rustNext <= eventHead
  /\ rustRows' = rustRows \o RowsFor(ContractEvents(rustNext), 1, rustNext)
  /\ rustNext' = rustNext + 1
  /\ UNCHANGED <<eventHead, tsPc, currentBlock, tsNext, tsRows, rustPc>>
  /\ UNCHANGED nonEventsVars

EventsNext ==
  \/ EventChainBlock
  \/ indexEvents
  \/ indexEventsSubscribe
  \/ indexEventsCallback
  \/ index_events
  \/ index_events_block

(***************************************************************************)
(* Batch event processing (Best Practices: Batch Event Processing)         *)
(***************************************************************************)

(* const BATCH_SIZE = 100 *)
BATCH_SIZE ==
  100

(* Events after which the chain of the model emits no more. *)
MaxBatchEvents ==
  230

(* Most event records one call of the subscription callback is handed. *)
MaxRecords ==
  3

(* The decoded events of a callback handed `count` records after `decoded` *)
(* events; an event is named by its position in the order of arrival.      *)
DecodedEvents(decoded, count) ==
  [k \in 1..count |-> decoded + k]

(* Array.prototype.splice(0, deleteCount): the removed elements and what   *)
(* is left of the array.                                                   *)
splice(array, deleteCount) ==
  LET n == IF deleteCount < Len(array) THEN deleteCount ELSE Len(array)
  IN  [removed |-> SubSeq(array, 1, n), array |-> SubSeq(array, n + 1, Len(array))]

(* events.forEach((record) => { eventBatch.push(decodedEvent); if          *)
(* (eventBatch.length >= BATCH_SIZE) processBatch(eventBatch.splice(0,     *)
(* BATCH_SIZE)) }) from record k on: the eventBatch and the calls of       *)
(* processBatch it leaves.                                                 *)
RECURSIVE forEach(_, _, _, _)
forEach(events, k, batch, passed) ==
  IF k > Len(events) THEN [eventBatch |-> batch, passed |-> passed]
  ELSE LET pushed == Append(batch, events[k])
       IN  IF Len(pushed) >= BATCH_SIZE
             THEN forEach(events, k + 1, splice(pushed, BATCH_SIZE).array,
                          Append(passed, splice(pushed, BATCH_SIZE).removed))
             ELSE forEach(events, k + 1, pushed, passed)

BatchInit ==
  /\ batchDecoded = 0
  /\ eventBatch = <<>>
  /\ batchPassed = <<>>
  /\ batchInserted = {}

(* The chain emits events and the callback of                              *)
(* client.api.query.system.events runs over them; processBatch runs up to  *)
(* its await db.insert(events).                                            *)
OnSystemEvents ==
  /\ batchDecoded < MaxBatchEvents
  /\ \E count \in 1..MaxRecords :
       LET done == forEach(DecodedEvents(batchDecoded, count), 1, eventBatch, batchPassed)
       IN  /\ batchDecoded' = batchDecoded + count
           /\ eventBatch' = done.eventBatch
           /\ batchPassed' = done.passed
  /\ UNCHANGED batchInserted
  /\ UNCHANGED nonBatchVars

(* await db.insert(events) of a call of processBatch returns. *)
processBatch ==
  /\ \E call \in DOMAIN batchPassed \ batchInserted :
       batchInserted' = batchInserted \cup {call}
  /\ UNCHANGED <<batchDecoded, eventBatch, batchPassed>>
  /\ UNCHANGED nonBatchVars

BatchNext ==
  \/ OnSystemEvents
  \/ processBatch

(***************************************************************************)
(* The promise around tx.signAndSend (Example: Deploy a Smart Contract;    *)
(* Deploying Contracts)                                                    *)
(***************************************************************************)

(* Most retractions of the block that holds the transaction. *)
MaxRetractions ==
  2

(* deployContract of the example, deployContract of Deploying Contracts,   *)
(* and deploy of scripts/deploy.ts.                                        *)
SendTools ==
  {"example:deployContract", "deploying:deployContract", "scripts/deploy.ts:deploy"}

(* The tools whose callback reads result.isError. *)
ToolsReadingIsError ==
  {"deploying:deployContract", "scripts/deploy.ts:deploy"}

(* The tools whose callback logs the block of isInBlock and isFinalized. *)
ToolsLoggingStatus ==
  {"deploying:deployContract", "scripts/deploy.ts:deploy"}

NoStatus ==
  "none"

NoAddress ==
  "undefined"

NoValue ==
  "none"

(* Addresses a contract is instantiated at. *)
ContractAddresses ==
  {"5Contract1", "5Contract2"}

(* The statuses after which the callback is handed no further result. *)
FinalStatuses ==
  {"Finalized", "Dropped", "Invalid", "Usurped", "FinalityTimeout"}

(* result.isError: the transaction failed and will not be finalized. *)
isError(status) ==
  status \in {"Dropped", "Invalid", "Usurped", "FinalityTimeout"}

(* The statuses a transaction may take after a status. *)
NextStatuses(status, retractions) ==
  CASE status = NoStatus -> {"Ready"}
    [] status = "Ready" -> {"Broadcast", "InBlock", "Dropped", "Invalid", "Usurped"}
    [] status = "Broadcast" -> {"InBlock", "Dropped", "Invalid", "Usurped"}
    [] status = "InBlock" ->
         {"Finalized", "FinalityTimeout"}
           \cup (IF retractions < MaxRetractions THEN {"Retracted"} ELSE {})
    [] status = "Retracted" -> {"InBlock"}
    [] OTHER -> {}

(* result.contract?.address of a result: an address when the block of the  *)
(* transaction holds the instantiation, else undefined.                    *)
ResultContracts(status) ==
  IF status \in {"InBlock", "Finalized"} THEN ContractAddresses \cup {NoAddress}
  ELSE {NoAddress}

(* resolve(value) and reject(new Error(message)): the first call settles   *)
(* the promise, later calls change nothing.                                *)
resolve(promise, value) ==
  IF promise.pc = "pending" THEN [promise EXCEPT !.pc = "resolved", !.value = value]
  ELSE promise

reject(promise, message) ==
  IF promise.pc = "pending" THEN [promise EXCEPT !.pc = "rejected", !.value = message]
  ELSE promise

(* if (status.isFinalized) { address ? resolve(address) : reject(...) } *)
onFinalized(status, address, promise) ==
  IF status = "Finalized"
    THEN IF address # NoAddress THEN resolve(promise, address)
         ELSE reject(promise, "Contract address not found")
    ELSE promise

(* if (result.isError) { reject(new Error('Deployment failed')) } *)
onError(tool, status, promise) ==
  IF tool \in ToolsReadingIsError /\ isError(status)
    THEN reject(promise, "Deployment failed")
    ELSE promise

(* The lines the callback logs for a result. *)
StatusLines(tool, status, address) ==
  IF tool \notin ToolsLoggingStatus THEN <<>>
  ELSE (IF status = "InBlock" THEN <<"In block">> ELSE <<>>)
       \o (IF status = "Finalized" THEN <<"Finalized">> ELSE <<>>)
       \o (IF /\ tool = "deploying:deployContract"
              /\ status = "Finalized"
              /\ address # NoAddress
            THEN <<"Contract deployed at">> ELSE <<>>)

(* The callback passed to tx.signAndSend, run on a result. *)
signAndSendCallback(tool, status, address, promise) ==
  onError(tool, status, onFinalized(status, address, promise))

SendInit ==
  /\ sendTool = "example:deployContract"
  /\ sendPc = "idle"
  /\ sendValue = NoValue
  /\ resultStatus = NoStatus
  /\ resultContract = NoAddress
  /\ sendRetractions = 0
  /\ sendLog = <<>>
  /\ sendAwait = "none"

(* A tool reaches await new Promise((resolve, reject) => {                 *)
(* tx.signAndSend(deployer, callback) }).                                  *)
SignAndSend ==
  /\ sendPc = "idle"
  /\ \E tool \in SendTools : sendTool' = tool
  /\ sendPc' = "pending"
  /\ sendAwait' = "waiting"
  /\ UNCHANGED <<sendValue, resultStatus, resultContract, sendRetractions, sendLog>>
  /\ UNCHANGED nonSendVars

(* The transaction takes its next status and the callback runs on the      *)
(* result.                                                                 *)
StatusUpdate ==
  /\ sendPc # "idle"
  /\ \E status \in NextStatuses(resultStatus, sendRetractions) :
       \E address \in ResultContracts(status) :
         LET promise == signAndSendCallback(sendTool, status, address,
                                            [pc |-> sendPc, value |-> sendValue])
         IN  /\ resultStatus' = status
             /\ resultContract' = address
             /\ sendRetractions' = sendRetractions + (IF status = "Retracted" THEN 1 ELSE 0)
             /\ sendPc' = promise.pc
             /\ sendValue' = promise.value
             /\ sendLog' = sendLog \o StatusLines(sendTool, status, address)
  /\ UNCHANGED <<sendTool, sendAwait>>
  /\ UNCHANGED nonSendVars

(* The await on the settled promise goes on: the tool has the address, or  *)
(* the Error is thrown in the tool.                                        *)
AwaitPromise ==
  /\ sendAwait = "waiting"
  /\ sendPc \in {"resolved", "rejected"}
  /\ sendAwait' = IF sendPc = "resolved" THEN "returned" ELSE "threw"
  /\ UNCHANGED <<sendTool, sendPc, sendValue, resultStatus, resultContract, sendRetractions,
                 sendLog>>
  /\ UNCHANGED nonSendVars

SendNext ==
  \/ SignAndSend
  \/ StatusUpdate
  \/ AwaitPromise

(* The programs of the examples, none of them started. *)
ExamplesIdle ==
  IndexerInit /\ RetryInit /\ CliInit /\ DeployInit /\ PoolInit
    /\ ListenerInit /\ EventsInit /\ BatchInit /\ SendInit

(***************************************************************************)
(* Specifications                                                          *)
(***************************************************************************)

(* Validation of the repository's site; no build runs. *)
SpecSiteInit ==
  SiteInit /\ BuildIdle /\ AuthInit /\ ExamplesIdle

SpecSite ==
  SpecSiteInit /\ [][SiteNext]_vars

(* A build over content drawn from the pools; the validation stays put. *)
SpecBuildInit ==
  BuildInit /\ SiteInit /\ AuthInit /\ ExamplesIdle

SpecBuild ==
  SpecBuildInit /\ [][BuildNext]_vars

(* The sign-in backend's routes; no validation and no build runs. *)
SpecAuthInit ==
  AuthInit /\ SiteInit /\ BuildIdle /\ ExamplesIdle

SpecAuth ==
  SpecAuthInit /\ [][AuthNext]_vars

(* One browser signing in and out against the backend. *)
SpecSessionInit ==
  AuthInit /\ SiteInit /\ BuildIdle /\ ExamplesIdle

SpecSession ==
  SpecSessionInit /\ [][SessionNext]_vars

(* The indexer following a chain that grows and reorganizes. *)
SpecIndexerInit ==
  IndexerInit /\ SiteInit /\ BuildIdle /\ AuthInit /\ RetryInit
    /\ CliInit /\ DeployInit /\ PoolInit /\ ListenerInit /\ EventsInit /\ BatchInit /\ SendInit

SpecIndexer ==
  SpecIndexerInit /\ [][IndexerNext]_vars

(* One call of processWithRetry with attempts that fail or succeed. *)
SpecRetryInit ==
  RetryInit /\ SiteInit /\ BuildIdle /\ AuthInit /\ IndexerInit
    /\ CliInit /\ DeployInit /\ PoolInit /\ ListenerInit /\ EventsInit /\ BatchInit /\ SendInit

SpecRetry ==
  SpecRetryInit /\ [][RetryNext]_vars

(* Account commands and one transfer command of the CLI. *)
SpecCliInit ==
  CliInit /\ SiteInit /\ BuildIdle /\ AuthInit /\ IndexerInit
    /\ RetryInit /\ DeployInit /\ PoolInit /\ ListenerInit /\ EventsInit /\ BatchInit /\ SendInit

SpecCli ==
  SpecCliInit /\ [][CliNext]_vars

(* Runs of the deployment tools over the balances. *)
SpecDeployInit ==
  DeployInit /\ SiteInit /\ BuildIdle /\ AuthInit /\ IndexerInit
    /\ RetryInit /\ CliInit /\ PoolInit /\ ListenerInit /\ EventsInit /\ BatchInit /\ SendInit

SpecDeploy ==
  SpecDeployInit /\ [][DeployNext]_vars

(* Callers of getClient() in any interleaving. *)
SpecPoolInit ==
  PoolInit /\ SiteInit /\ BuildIdle /\ AuthInit /\ IndexerInit
    /\ RetryInit /\ CliInit /\ DeployInit /\ ListenerInit /\ EventsInit /\ BatchInit /\ SendInit

SpecPool ==
  SpecPoolInit /\ [][PoolNext]_vars

(* The resilient event listener over connection drops and failed attempts. *)
SpecListenerInit ==
  ListenerInit /\ SiteInit /\ BuildIdle /\ AuthInit /\ IndexerInit
    /\ RetryInit /\ CliInit /\ DeployInit /\ PoolInit /\ EventsInit /\ BatchInit /\ SendInit

SpecListener ==
  SpecListenerInit /\ [][ListenerNext]_vars

(* The TypeScript and the Rust event indexer over a growing chain. *)
SpecEventsInit ==
  EventsInit /\ SiteInit /\ BuildIdle /\ AuthInit /\ IndexerInit
    /\ RetryInit /\ CliInit /\ DeployInit /\ PoolInit /\ ListenerInit /\ BatchInit /\ SendInit

SpecEvents ==
  SpecEventsInit /\ [][EventsNext]_vars

(* The subscription callback filling eventBatch and the calls of processBatch. *)
SpecBatchInit ==
  BatchInit /\ SiteInit /\ BuildIdle /\ AuthInit /\ IndexerInit
    /\ RetryInit /\ CliInit /\ DeployInit /\ PoolInit /\ ListenerInit /\ EventsInit /\ SendInit

SpecBatch ==
  SpecBatchInit /\ [][BatchNext]_vars

(* The promise around tx.signAndSend over the statuses of a transaction. *)
SpecSendInit ==
  SendInit /\ SiteInit /\ BuildIdle /\ AuthInit /\ IndexerInit
    /\ RetryInit /\ CliInit /\ DeployInit /\ PoolInit /\ ListenerInit /\ EventsInit /\ BatchInit

SpecSend ==
  SpecSendInit /\ [][SendNext]_vars

(* The listener with time passing, due timers firing, and every attempt    *)
(* coming to an end; connection attempts fail MaxFailedAttempts times at   *)
(* most, so they eventually succeed.                                       *)
FairSpecListener ==
  /\ SpecListener
  /\ WF_vars(ListenerTick)
  /\ WF_vars(TimerFires)
  /\ WF_vars(ConnectSucceeds \/ ConnectFails)
  /\ WF_vars(SubscribeSucceeds \/ SubscribeFails)

(* Batch event processing in which every db.insert returns; the chain need *)
(* not emit another event.                                                 *)
FairSpecBatch ==
  /\ SpecBatch
  /\ WF_vars(processBatch)

(***************************************************************************)
(* Claims about the site                                                   *)
(***************************************************************************)

(* C1: every document id listed in the sidebars configuration (a doc       *)
(* entry's id, every string of a category's items, in sdkSidebar and       *)
(* blockchainSidebar) is the id of a document file under docs/.  The       *)
(* documents not held by name are all taken to exist; the entry            *)
(* sdk/contracts/calling-methods still names no document, the file being   *)
(* docs/sdk/contracts/calling.md.                                          *)
C1_SidebarIdsResolve ==
  sitePhase # "docs" =>
    \A i \in 1..Len(SidebarRefs) : SidebarRefs[i].id \in docIds

(* C2: every site-internal link (markdown links whose target starts with   *)
(* '/', and the footer's `to` targets) resolves to the route of a document *)
(* of the site.  The links written with a /docs/ prefix resolve to none.   *)
C2_InternalLinksResolve ==
  sitePhase # "docs" =>
    \A i \in 1..Len(SiteLinks) : SiteLinks[i].target \in routes

(* C3: every sidebarId named by a docSidebar navbar item is a sidebar      *)
(* defined in the sidebars configuration.                                  *)
C3_NavbarSidebarsDefined ==
  sitePhase \in {"links", "fences", "done"} => missingSidebars = {}

C6_FencesCarryRecognisedTag ==
  sitePhase = "done" => badFences = {}

(***************************************************************************)
(* Claims about Sign in with GLIN                                          *)
(***************************************************************************)

(* Whether `signature` is the signature of the key of `address` over       *)
(* `message`.                                                              *)
SignatureIsValid(address, message, signature) ==
  address \in Addresses /\ signature = SignRaw(address, message)

(* C7: POST /api/auth/signin returns a sessionId only when the signature   *)
(* verifies for the given address over the given message; for a signature  *)
(* that does not verify, also when verifying throws, the response is 401   *)
(* 'Invalid signature', and no session exists for such a request.          *)
C7_SessionOnlyForVerifiedSignature ==
  /\ signInResponse.sessionId # NoSessionId =>
       /\ signInRequest.parsed
       /\ SignatureIsValid(signInRequest.address, signInRequest.message,
                           signInRequest.signature)
  /\ ( /\ signInRequest.parsed
       /\ ~SignatureIsValid(signInRequest.address, signInRequest.message,
                            signInRequest.signature) ) =>
       signInResponse = Response(401, "Invalid signature", NoSessionId, Null)
  /\ \A s \in issued : SignatureIsValid(s.address, s.message, s.signature)

(* A session has been returned, and the last request, whose signature made *)
(* the verification throw, got 401.                                        *)
C7_Witness ==
  /\ issued # {}
  /\ signInRequest.parsed
  /\ signInRequest.signature = MalformedSignature
  /\ signInResponse.status = 401

(* C8: a given (address, message, signature) triple is accepted by the     *)
(* sign-in route at most once: no two sessions come from the same triple.  *)
C8_TripleAcceptedAtMostOnce ==
  \A s, t \in issued :
    (s.address = t.address /\ s.message = t.message /\ s.signature = t.signature)
      => s.sessionId = t.sessionId

(* C9: GET /api/user/profile responds 401 unless the x-session-id header   *)
(* names a session that a successful sign-in created and that had not      *)
(* passed its 24-hour expiry at the request; only then does it return that *)
(* session's address.                                                      *)
C9_ProfileNeedsLiveSession ==
  LET live == {s \in issued : /\ s.sessionId = profileRequest.header
                              /\ s.createdAt <= profileRequest.at
                              /\ ~(s.createdAt + SessionTtlMs < profileRequest.at)}
  IN  \/ profileResponse = NoResponse
      \/ /\ live = {}
         /\ profileResponse.status = 401
      \/ /\ live # {}
         /\ profileResponse.status = 200
         /\ \A s \in live : profileResponse.address = s.address

(* C10: after signOut the session id the client held is no longer accepted *)
(* by session validation.  (That signOut leaves no user and no stored      *)
(* glin_session / glin_address is what its assignments do.)                *)
C10_SignedOutSessionRejected ==
  \A id \in signedOut : validateSession(id) = Null

(***************************************************************************)
(* Claims about the blockchain indexer                                     *)
(***************************************************************************)

(* The indexer has caught up: it runs, the chain's best block is the last  *)
(* header delivered to it, no callback is in flight and a block of the     *)
(* best block's number is stored.                                          *)
CaughtUp ==
  /\ subscribed
  /\ isRunning
  /\ lastHeader = getBlockHash(chainHead)
  /\ \A h \in Handlers : handlers[h].pc = "idle"
  /\ \E b \in db.blocks : b.number = chainHead

(* C11: the indexer handles chain reorganizations: once it has caught up,  *)
(* the stored blocks are a prefix of the canonical chain, the blocks of a  *)
(* branch the chain left having been deleted with their events and         *)
(* transfers.                                                              *)
C11_StoredBlocksArePrefixOfChain ==
  CaughtUp =>
    /\ \A b \in db.blocks : b.hash = getBlockHash(b.number)
    /\ \A e \in db.events : \E b \in db.blocks :
         b.id = e.blockId /\ b.hash = getBlockHash(b.number)
    /\ \A t \in db.transfers : \E b \in db.blocks :
         b.id = t.blockId /\ b.hash = getBlockHash(b.number)

(* The committed rows of a stored block are all the rows processBlock      *)
(* writes for it.                                                          *)
RowsCompleteIn(store, b) ==
  \A k \in 2..Len(Writes(b.hash)) :
    LET write == Writes(b.hash)[k]
    IN  RowOf(write, b.hash, b.id) \in store[write.table]

RowsComplete(b) ==
  RowsCompleteIn(db, b)

(* C12: processBlock is atomic: the committed tables hold, of any block,   *)
(* its block row with all of its event rows and transfer rows, or no row   *)
(* at all, also after a create has failed part-way.                        *)
C12_ProcessBlockIsAtomic ==
  /\ \A b \in db.blocks : RowsComplete(b)
  /\ \A e \in db.events : \E b \in db.blocks : b.id = e.blockId
  /\ \A t \in db.transfers : \E b \in db.blocks : b.id = t.blockId

(* A create of a block with several rows failed after the block's first    *)
(* creates, and an earlier block is stored with an event and a transfer.   *)
C12_Witness ==
  /\ insertFailures > 0
  /\ \E b \in db.blocks : b.number = 1 /\ RowsComplete(b)
  /\ ~\E b \in db.blocks : b.number = 2

(* C13: on start the indexer begins at lastBlock + 1 of the most recently  *)
(* written sync-state row, or at block 0 when there is none, which is      *)
(* where a catch-up starts; and a sync-state row for block b is written    *)
(* only by a callback that has committed the rows of block b before.       *)
C13_TracksProgress ==
  [][/\ (starts' # starts) =>
          startBlock' = IF syncStates = <<>> THEN 0
                        ELSE syncStates[Len(syncStates)].lastBlock + 1
     /\ \A h \in Handlers :
          (handlers[h].pc = "idle" /\ handlers'[h].pc = "catchUp") =>
            handlers'[h].i = startBlock
     /\ \A h \in Handlers :
          (handlers[h].pc # "updateSyncState" /\ handlers'[h].pc = "updateSyncState") =>
            \E b \in db'.blocks : b.hash = handlers'[h].hash /\ RowsCompleteIn(db', b)
     /\ (syncStates' # syncStates) =>
          /\ Len(syncStates') = Len(syncStates) + 1
          /\ \E h \in Handlers :
               /\ handlers[h].pc = "updateSyncState"
               /\ syncStates'[Len(syncStates')].lastBlock = handlers[h].hash[1]
               /\ syncStates'[Len(syncStates')].lastBlockHash = handlers[h].hash]_vars

(* The indexer was started a second time over a sync state of block 1 and  *)
(* has stored block 2 since.                                               *)
C13_Witness ==
  /\ starts = 2
  /\ startBlock = 2
  /\ \E b \in db.blocks : b.number = 2
  /\ syncStates # <<>>
  /\ syncStates[Len(syncStates)].lastBlock = 2

(* C14: processWithRetry waits with exponential backoff: every delay is    *)
(* the previous delay times one constant factor greater than one.          *)
C14_BackoffIsExponential ==
  /\ \A k \in 2..Len(retryDelays) : retryDelays[k] > retryDelays[k - 1]
  /\ \A k \in 3..Len(retryDelays) :
       retryDelays[k] * retryDelays[k - 2] = retryDelays[k - 1] * retryDelays[k - 1]

(***************************************************************************)
(* Claims about the GLIN CLI                                               *)
(***************************************************************************)

(* C15: the names of the stored accounts are unique; a save of an account  *)
(* whose name is stored fails with 'Account "<name>" already exists' and   *)
(* leaves the list as it was.                                              *)
C15_AccountNamesUnique ==
  /\ [](\A j, k \in 1..Len(accounts) : accounts[j].name = accounts[k].name => j = k)
  /\ [][(lastSaved' # lastSaved \/ accounts' # accounts \/ cliError' # cliError) =>
          IF \E k \in 1..Len(accounts) : accounts[k].name = lastSaved'.name
            THEN /\ cliError' = <<"Account \"", lastSaved'.name, "\" already exists">>
                 /\ accounts' = accounts
            ELSE /\ cliError' = <<>>
                 /\ accounts' = Append(accounts, lastSaved')]_vars

(* Two accounts are stored and the last save, of a name that was stored,   *)
(* was refused.                                                            *)
C15_Witness ==
  /\ Len(accounts) = 2
  /\ cliError # <<>>
  /\ \E k \in 1..Len(accounts) :
       accounts[k].name = lastSaved.name /\ accounts[k] # lastSaved

(* C16: the CLI reports 'Transfer successful!' only after the transfer has *)
(* been finalized without a dispatch error.                                *)
C16_SuccessOnlyAfterFinalized ==
  MsgSuccess \in cliOutput => (txStatus = "finalized" /\ ~txDispatchError)

(***************************************************************************)
(* Claims about the deployment tools                                       *)
(***************************************************************************)

C18_ConnectAtMostOnce ==
  /\ (\A c \in Callers : callers[c].pc # "rejected") => connectCalls <= 1
  /\ \A c, e \in Callers :
       (callers[c].pc = "returned" /\ callers[e].pc = "returned") =>
         callers[c].returned = callers[e].returned

(***************************************************************************)
(* Claims about the resilient event listener                               *)
(***************************************************************************)

(* C19: every disconnect and every failed attempt leaves a subscribe       *)
(* scheduled 5 seconds later, and a started listener that is not           *)
(* subscribed is eventually subscribed.                                    *)
C19_ResubscribesAfterDrop ==
  /\ [][(disconnects' # disconnects \/ failedAttempts' # failedAttempts) =>
          /\ Len(timers') = Len(timers) + 1
          /\ timers'[Len(timers')] = 5000]_vars
  /\ (listenerPc \notin {"idle", "subscribed"}) ~> (listenerPc = "subscribed")

(* The listener is subscribed after a failed attempt and a disconnect. *)
C19_Witness ==
  /\ listenerPc = "subscribed"
  /\ disconnects > 0
  /\ failedAttempts > 0

(***************************************************************************)
(* Claims about the contract-event indexers                                *)
(***************************************************************************)

(* Whether a stored row is a Transfer of the contract emitted in the block *)
(* whose number the row carries.                                           *)
RowCarriesItsBlock(row) ==
  /\ row.block_number \in 0..MaxEventHeight + 1
  /\ \E k \in 1..Len(ContractEvents(row.block_number)) :
       LET event == ContractEvents(row.block_number)[k]
       IN  /\ IsContractTransfer(event)
           /\ event.from = row.from_address
           /\ event.to = row.to_address
           /\ event.value = row.value

(* C20: every stored Transfer row carries the number of the block in which *)
(* the event was emitted, in the TypeScript and in the Rust indexer, for   *)
(* the first block indexed and for every later one.                        *)
C20_RowsCarryTheirBlockNumber ==
  /\ \A k \in 1..Len(tsRows) : RowCarriesItsBlock(tsRows[k])
  /\ \A k \in 1..Len(rustRows) : RowCarriesItsBlock(rustRows[k])

(***************************************************************************)
(* Claims about batch event processing                                     *)
(***************************************************************************)

(* The events passed to processBatch, in the order of the calls. *)
RECURSIVE PassedEvents(_)
PassedEvents(k) ==
  IF k = 0 THEN <<>> ELSE PassedEvents(k - 1) \o batchPassed[k]

(* C21: every decoded event pushed to eventBatch is eventually passed to   *)
(* processBatch, exactly once and in arrival order, including the events   *)
(* that remain when fewer than BATCH_SIZE are pending.                     *)
C21_EveryEventIsPassedToProcessBatch ==
  /\ [](\A k \in 1..Len(PassedEvents(Len(batchPassed))) :
          PassedEvents(Len(batchPassed))[k] = k)
  /\ \A event \in 1..MaxBatchEvents + MaxRecords :
       (event <= batchDecoded)
         ~> (\E k \in 1..Len(PassedEvents(Len(batchPassed))) :
               PassedEvents(Len(batchPassed))[k] = event)

(***************************************************************************)
(* Claims about the promise around tx.signAndSend                          *)
(***************************************************************************)

(* C22: the promise wrapping tx.signAndSend settles for every transaction  *)
(* outcome: once the callback has run on the last result of a transaction  *)
(* the promise is resolved with the contract address when the transaction  *)
(* is finalized with one, and rejected when the transaction failed or is   *)
(* finalized without one; no tool is left waiting on a pending promise.    *)
C22_PromiseSettlesOnEveryOutcome ==
  /\ sendPc = "resolved" =>
       /\ resultStatus = "Finalized"
       /\ resultContract # NoAddress
       /\ sendValue = resultContract
  /\ sendPc = "rejected" =>
       \/ isError(resultStatus)
       \/ resultStatus = "Finalized" /\ resultContract = NoAddress
  /\ (sendPc # "idle" /\ resultStatus \in FinalStatuses) => sendPc # "pending"

====
